---- MODULE Spec2Model ----
(***************************************************************************)
(* Model of the file-classification pipeline of Package_machine:           *)
(*   FileMover (core/file_mover.py), AIClassifier.classify_files           *)
(*   (core/ai_classifier.py), the ClassificationThread worker and the      *)
(*   MainWindow handlers (ui/main_window.py), the worker of                *)
(*   core/classification_thread.py, and the tables of CategoryStorage      *)
(*   (core/category_storage.py).                                           *)
(*                                                                         *)
(* Representation choices.                                                 *)
(*  - A file name is a record [stem, sfx, ext]: the text                   *)
(*    stem ++ "_k1" ++ "_k2" ... ++ ext, so that os.path.splitext and the  *)
(*    f"{base}_{counter}{ext}" renaming are computed, not assumed.         *)
(*  - A path is [dir, name]; the filesystem fs maps the existing paths to  *)
(*    the content of the file, dirs is the set of existing directories.    *)
(***************************************************************************)
EXTENDS Integers, Sequences, FiniteSets, TLC

VARIABLES
    fs,                  \* filesystem: existing file path -> content
    dirs,                \* existing directories
    last_call,           \* the last move_file / copy_file call made directly by a caller
    ops,                 \* number of direct mover calls made
    files,               \* files_info handed to the worker (filtered_files)
    api_key,             \* configuration holds "deepseek.api_key"
    thread,              \* MainWindow.classification_thread: "none", "running", "finished"
    pc,                  \* position of ClassificationThread.run
    i,                   \* loop variable i of run: start index of the next batch
    existing_categories, \* local existing_categories of run
    results,             \* local results of run: file path -> result
    events,              \* signals emitted by the worker, in order
    delivered,           \* payloads carried by the finished signal
    calls,               \* classify_files invocations of the run, in order
    start_btn,           \* MainWindow.start_btn.isEnabled()
    handled,             \* number of terminal signals the window has handled
    runs,                \* number of threads start_classification has started
    result_text,         \* classify_files: the text of the response being handled
    json_result,         \* classify_files: what the handling of result_text gave
    categories,          \* CategoryStorage table categories, rows in id order
    file_categories,     \* CategoryStorage table file_categories, rows in rowid order
    category_history,    \* CategoryStorage table category_history, rows in id order
    now,                 \* the clock behind CURRENT_TIMESTAMP
    store_call,          \* the last CategoryStorage call and what it returned
    store_ops,           \* number of CategoryStorage calls made
    enhanced_info,       \* enhance_files_info: the last file handled and its record
    scan                 \* collect_files_info: the walk, its records and its outcome

mover_vars == <<fs, dirs, last_call, ops>>

worker_vars == <<files, api_key, thread, pc, i, existing_categories, results, events,
                 delivered, calls, start_btn, handled, runs>>

client_vars == <<result_text, json_result>>

store_vars == <<categories, file_categories, category_history, now, store_call, store_ops>>

inventory_vars == <<enhanced_info, scan>>

vars == <<fs, dirs, last_call, ops, files, api_key, thread, pc, i, existing_categories,
          results, events, delivered, calls, start_btn, handled, runs, result_text,
          json_result, categories, file_categories, category_history, now, store_call,
          store_ops, enhanced_info, scan>>

\* no file has been enhanced and no directory is being scanned
InventoryIdle ==
    /\ enhanced_info = [state |-> "none"]
    /\ scan = [state |-> "none"]

\* no response is being handled
ClientIdle ==
    /\ result_text = <<>>
    /\ json_result = [state |-> "none"]

\* the database as _init_database leaves a new file: three empty tables
StoreCreated ==
    /\ categories = <<>>
    /\ file_categories = <<>>
    /\ category_history = <<>>
    /\ now = 0
    /\ store_call = [op |-> "none"]
    /\ store_ops = 0

(***************************************************************************)
(* Bounds of the model.                                                    *)
(***************************************************************************)
MaxOps == 3
MaxFiles == 21
MaxCoreFiles == 3
MaxText == 5
MaxStoreOps == 2
MaxClock == 1
Near == 3
MaxScanFiles == 4
MaxRuns == 2
WideFiles == 1
LargeFiles == 500

(***************************************************************************)
(* Program constants.                                                      *)
(***************************************************************************)
batch_size == 10
max_length == 1000

(***************************************************************************)
(* os.path helpers over the modelled names and paths.                      *)
(***************************************************************************)
Name(stem, sfx, ext) == [stem |-> stem, sfx |-> sfx, ext |-> ext]

Path(dir, name) == [dir |-> dir, name |-> name]

\* "" stands for "no new_name given" (None) and for the empty string: both are falsy.
NoName == Name("", <<>>, "")

basename(path) == path.name

\* os.path.exists for a file path
exists(f, path) == path \in DOMAIN f

\* f"{base}_{counter}{ext}" with base, ext = os.path.splitext(target_name)
Suffixed(target_name, counter) ==
    Name(target_name.stem, Append(target_name.sfx, counter), target_name.ext)

\* the while loop of move_file / copy_file: first free base_counter+ext, counter = 1, 2, ...
RECURSIVE CollisionLoop(_, _, _, _)
CollisionLoop(f, target_dir, target_name, counter) ==
    LET new_name == Suffixed(target_name, counter)
    IN  IF exists(f, Path(target_dir, new_name))
        THEN CollisionLoop(f, target_dir, target_name, counter + 1)
        ELSE new_name

\* a faulty destination choice: a counter is appended also to a free name
ResolveTargetAlwaysSuffixed(f, target_dir, target_name) ==
    CollisionLoop(f, target_dir, target_name, 1)

\* a faulty destination choice: the existence check is dropped
ResolveTargetOverwrite(f, target_dir, target_name) == target_name

\* the destination name: the requested one if free, else the first free suffixed one
ResolveTarget(f, target_dir, target_name) ==
    IF exists(f, Path(target_dir, target_name))
    THEN CollisionLoop(f, target_dir, target_name, 1)
    ELSE target_name

\* I/O faults the environment may inject into one call
Faults == {"none", "makedirs", "transfer"}

\* a faulty error handling: "return True" in a finally clause
RelocateReportsSuccess(f, d, source, target_dir, new_name, fault, keep_source) ==
    LET target_name == IF new_name # NoName THEN new_name ELSE basename(source)
    IN  [fs |-> f, dirs |-> d, ok |-> TRUE, error |-> "none",
         dest |-> Path(target_dir, ResolveTarget(f, target_dir, target_name))]

\* The common body of move_file and copy_file.  keep_source distinguishes copy
\* (shutil.copy2) from move (shutil.move).  The result is the new filesystem, the
\* new directory set, the returned bool, the exception that "except Exception"
\* caught (error: os.makedirs failed, the source does not exist, the transfer
\* failed, or none) and the written path (dest; meaningful only when ok).
Relocate(f, d, source, target_dir, new_name, fault, keep_source) ==
    LET target_name == IF new_name # NoName THEN new_name ELSE basename(source)
        chosen      == ResolveTarget(f, target_dir, target_name)
        target_path == Path(target_dir, chosen)
        d1          == d \cup {target_dir}
    IN  IF target_dir \notin d /\ fault = "makedirs"
        THEN [fs |-> f, dirs |-> d, ok |-> FALSE, error |-> "makedirs", dest |-> target_path]
        ELSE IF ~exists(f, source)
        THEN [fs |-> f, dirs |-> d1, ok |-> FALSE, error |-> "source", dest |-> target_path]
        ELSE IF fault = "transfer"
        THEN [fs |-> f, dirs |-> d1, ok |-> FALSE, error |-> "transfer", dest |-> target_path]
        ELSE LET kept == IF keep_source THEN DOMAIN f ELSE DOMAIN f \ {source}
                 f1   == (target_path :> f[source]) @@ [p \in kept |-> f[p]]
             IN  [fs |-> f1, dirs |-> d1, ok |-> TRUE, error |-> "none", dest |-> target_path]

move_file(f, d, source, target_dir, new_name, fault) ==
    Relocate(f, d, source, target_dir, new_name, fault, FALSE)

copy_file(f, d, source, target_dir, new_name, fault) ==
    Relocate(f, d, source, target_dir, new_name, fault, TRUE)

(***************************************************************************)
(* The file mover driven directly by a caller: any sequence of move_file   *)
(* and copy_file calls.                                                    *)
(***************************************************************************)
SrcDirs == {<<"S1">>, <<"S2">>}
TargetDir == <<"T">>

\* names that collide with one another and with generated names
MoverNames == { Name("a", <<>>, ".txt"), Name("a", <<1>>, ".txt"),
                Name("a", <<2>>, ".txt"), Name("b", <<>>, "") }

\* names a caller passes as new_name (NoName: none given)
NewNames == { NoName, Name("b", <<>>, "") }

\* the files a caller moves or copies: one per source directory, and one that
\* already lies in the target directory
SourcePaths == { Path(sd, Name("a", <<>>, ".txt")) : sd \in SrcDirs }
                 \cup { Path(TargetDir, Name("a", <<>>, ".txt")) }

\* content of the file initially at a path: the path itself identifies it
InitialFs(paths) == [p \in paths |-> p]

InitMover ==
    /\ \E present \in SUBSET { Path(TargetDir, n) : n \in MoverNames } :
         fs = InitialFs(present \cup { Path(sd, Name("a", <<>>, ".txt")) : sd \in SrcDirs })
    /\ \E t \in BOOLEAN :
         dirs = SrcDirs \cup (IF t \/ \E p \in DOMAIN fs : p.dir = TargetDir
                              THEN {TargetDir} ELSE {})
    /\ last_call = [op |-> "none"]
    /\ ops = 0
    /\ files = <<>>
    /\ api_key = TRUE
    /\ thread = "none"
    /\ pc = "idle"
    /\ i = 0
    /\ existing_categories = {}
    /\ results = <<>>
    /\ events = <<>>
    /\ delivered = <<>>
    /\ calls = <<>>
    /\ start_btn = TRUE
    /\ handled = 0
    /\ runs = 0
    /\ ClientIdle
    /\ InventoryIdle
    /\ StoreCreated

CallRecord(op, source, target_dir, new_name, r) ==
    [op |-> op, source |-> source, target_dir |-> target_dir, new_name |-> new_name,
     ok |-> r.ok, error |-> r.error, dest |-> r.dest]

MoveFile ==
    /\ ops < MaxOps
    /\ \E source \in SourcePaths, new_name \in NewNames, fault \in Faults :
         LET r == move_file(fs, dirs, source, TargetDir, new_name, fault)
         IN  /\ fs' = r.fs
             /\ dirs' = r.dirs
             /\ last_call' = CallRecord("move", source, TargetDir, new_name, r)
    /\ ops' = ops + 1
    /\ UNCHANGED <<inventory_vars, worker_vars, store_vars, client_vars>>

CopyFile ==
    /\ ops < MaxOps
    /\ \E source \in SourcePaths, new_name \in NewNames, fault \in Faults :
         LET r == copy_file(fs, dirs, source, TargetDir, new_name, fault)
         IN  /\ fs' = r.fs
             /\ dirs' = r.dirs
             /\ last_call' = CallRecord("copy", source, TargetDir, new_name, r)
    /\ ops' = ops + 1
    /\ UNCHANGED <<inventory_vars, worker_vars, store_vars, client_vars>>

NextMover == MoveFile \/ CopyFile

SpecMover == InitMover /\ [][NextMover]_vars

(***************************************************************************)
(* AIClassifier.classify_files.                                            *)
(*                                                                         *)
(* JSON values of the remote response are tagged records.  A target_folder *)
(* value is [t, v]: t = "str" (v the text), "null", "num", "list" or       *)
(* "missing" (the key is absent).  A reason value is [t, len, causal,      *)
(* feat, cert]: for t = "str", len is the length of the text and the three *)
(* flags say whether it contains a marker of the group                     *)
(* (causal words, characteristic/type words, certainty words) tested by    *)
(* _calculate_confidence.  A confidence is a Python float, an IEEE 754      *)
(* binary64 value, held exactly: [hi, lo] stands for the value             *)
(* (hi * 2^28 + lo) * 2^-56.                                               *)
(***************************************************************************)
Str(v) == [t |-> "str", v |-> v]

Other(t) == [t |-> t, v |-> ""]

Reason(t, len, causal, feat, cert) ==
    [t |-> t, len |-> len, causal |-> causal, feat |-> feat, cert |-> cert]

Text(len, causal, feat, cert) == Reason("str", len, causal, feat, cert)

NoText(t) == Reason(t, 0, FALSE, FALSE, FALSE)

\* an entry of the parsed response: a JSON object with optional keys, or another value
Object(tf, reason) == [kind |-> "object", target_folder |-> tf, reason |-> reason]

NonObject == [kind |-> "string", target_folder |-> Other("missing"), reason |-> NoText("missing")]

\* the key is not in classification_results
Absent == [kind |-> "absent", target_folder |-> Other("missing"), reason |-> NoText("missing")]

\* Python truthiness of a reason value: None, "" and 0 are falsy
Truthy(reason) ==
    \/ reason.t = "str" /\ reason.len > 0
    \/ reason.t = "num" /\ reason.len # 0

\* the weight of hi in units of lo
ConfLimb == 2^28

Float(hi, lo) == [hi |-> hi, lo |-> lo]

\* the literals 0.0, 0.5, 0.1, 0.2 and 1.0: 0.1 is 0x1999999999999A * 2^-56
\* and 0.2 is 0x33333333333334 * 2^-56
float_0_0 == Float(0, 0)
float_0_5 == Float(134217728, 0)
float_0_1 == Float(26843545, 161061274)
float_0_2 == Float(53687091, 53687092)
float_1_0 == Float(ConfLimb, 0)

\* x <= y
float_le(x, y) == x.hi < y.hi \/ (x.hi = y.hi /\ x.lo <= y.lo)

\* x + y for 0.5 <= x + y < 2: the exact sum, rounded to the nearest float
\* (a multiple of 2^-53 below 1.0 and of 2^-52 from 1.0 on), a tie to the
\* one whose last bit is 0
float_add(x, y) ==
    LET lo    == x.lo + y.lo
        hi    == x.hi + y.hi + (lo \div ConfLimb)
        low   == lo % ConfLimb
        ulp   == IF hi >= ConfLimb THEN 16 ELSE 8
        rest  == low % ulp
        down  == low - rest
        up    == \/ 2 * rest > ulp
                 \/ 2 * rest = ulp /\ (down \div ulp) % 2 = 1
        low2  == IF up THEN down + ulp ELSE down
    IN  Float(hi + (low2 \div ConfLimb), low2 % ConfLimb)

\* min(x, y)
float_min(x, y) == IF float_le(x, y) THEN x ELSE y

\* a faulty scoring: every bonus is 0.2 and the sum is returned as it is
calculate_confidence_unclamped(result) ==
    LET reason == result.reason
        c0 == float_0_5
        c1 == IF reason.len > 50 THEN float_add(c0, float_0_2) ELSE c0
        c2 == IF reason.causal THEN float_add(c1, float_0_2) ELSE c1
        c3 == IF reason.feat THEN float_add(c2, float_0_2) ELSE c2
        c4 == IF reason.cert THEN float_add(c3, float_0_2) ELSE c3
    IN  IF reason.t # "missing" /\ Truthy(reason) THEN c4 ELSE c0

\* _calculate_confidence; evaluated only where it does not raise (see Raises)
calculate_confidence(result) ==
    LET reason == result.reason
        c0 == float_0_5
        c1 == IF reason.len > 50 THEN float_add(c0, float_0_2) ELSE c0
        c2 == IF reason.causal THEN float_add(c1, float_0_1) ELSE c1
        c3 == IF reason.feat THEN float_add(c2, float_0_1) ELSE c2
        c4 == IF reason.cert THEN float_add(c3, float_0_1) ELSE c3
    IN  IF reason.t # "missing" /\ Truthy(reason)
        THEN float_min(c4, float_1_0)
        ELSE float_min(c0, float_1_0)

\* the entry makes the per-file code of classify_files raise:
\*   result['target_folder'] on a non-object or without the key,
\*   new_categories.add(target_folder) on an unhashable value,
\*   result['reason'] without the key, len(reason) on a truthy number
Raises(entry, existing) ==
    /\ entry.kind # "absent"
    /\ \/ entry.kind # "object"
       \/ entry.target_folder.t = "missing"
       \/ entry.target_folder.t = "list"
       \/ entry.reason.t = "missing"
       \/ entry.reason.t = "num" /\ Truthy(entry.reason)

\* the else branch: the name is not in the parsed response.  "Unclassified"
\* stands for the fixed folder name of the source, the reason for its fixed
\* nine-character text.
Fallback ==
    [target_folder |-> Str("Unclassified"), reason |-> Text(9, FALSE, FALSE, FALSE),
     confidence |-> float_0_0]

\* the result written for one file of the batch (entry does not raise)
FileResult(entry) ==
    IF entry.kind # "absent"
    THEN [target_folder |-> entry.target_folder, reason |-> entry.reason,
          confidence |-> calculate_confidence(entry)]
    ELSE Fallback

\* classification_results.get(filename): the response is keyed by display name
EntryOf(response, file_info) == response[file_info.name]

\* a faulty result loop: only the files named in the response get an entry
BatchResultsPresentOnly(batch, response) ==
    [p \in { batch[k].absolute_path : k \in { j \in 1..Len(batch) :
                                              EntryOf(response, batch[j]).kind # "absent" } } |->
       LET k == CHOOSE k \in 1..Len(batch) : batch[k].absolute_path = p
       IN  FileResult(EntryOf(response, batch[k]))]

\* the loop "for file_info in files_info: results[file_path] = ..." (no entry raises)
BatchResults(batch, response) ==
    [p \in { batch[k].absolute_path : k \in 1..Len(batch) } |->
       LET k == CHOOSE k \in 1..Len(batch) : batch[k].absolute_path = p
       IN  FileResult(EntryOf(response, batch[k]))]

\* Outcome of the response handling of one classify_files call:
\*   [raised |-> TRUE] or [raised |-> FALSE, results |-> path -> result]
ProcessResponse(batch, response, existing) ==
    IF \E k \in 1..Len(batch) : Raises(EntryOf(response, batch[k]), existing)
    THEN [raised |-> TRUE, results |-> <<>>]
    ELSE [raised |-> FALSE, results |-> BatchResults(batch, response)]

\* classify_files after _init_client: the prompt, the request
\* (client.chat.completions.create, sent |-> TRUE) and the handling of the
\* response.  What the remote side does with the request: "service" (the
\* request raises), "format" (the text holds no JSON object), "parsed"
\* (json.loads returned the dict response).  error names the exception:
\* "service", "format", "entry" (the per-file code raised) or "none".
RequestAndProcess(batch, existing, remote, response) ==
    IF remote # "parsed"
    THEN [raised |-> TRUE, sent |-> TRUE, error |-> remote, results |-> <<>>]
    ELSE LET r == ProcessResponse(batch, response, existing)
         IN  [raised |-> r.raised, sent |-> TRUE,
              error |-> IF r.raised THEN "entry" ELSE "none", results |-> r.results]

\* a faulty order: the key is looked up when the request has been made
classify_files_key_late(batch, existing, has_key, remote, response) ==
    LET r == RequestAndProcess(batch, existing, remote, response)
    IN  IF ~has_key
        THEN [raised |-> TRUE, sent |-> r.sent, error |-> "config", results |-> <<>>]
        ELSE r

\* classify_files: _init_client comes first, and _get_api_key raises ValueError
\* (error "config") when the configuration holds no key: nothing is sent
classify_files(batch, existing, has_key, remote, response) ==
    IF ~has_key
    THEN [raised |-> TRUE, sent |-> FALSE, error |-> "config", results |-> <<>>]
    ELSE RequestAndProcess(batch, existing, remote, response)

(***************************************************************************)
(* The inputs of a run: the files under the source directory, the target   *)
(* tree, and what the remote service answers.                              *)
(***************************************************************************)
Stems == <<"f1", "f2">>

TargetBase == <<"target">>

\* the g-th nested sub-directory of the source directory: src, src/d, src/d/d, ...
SubDir(g) == [k \in 1..(g + 1) |-> IF k = 1 THEN "src" ELSE "d"]

\* the k-th file found by the inventory when the tree holds nnames display names:
\* the files of one directory have different names, files of different
\* directories share them; nnames = 0 stands for a flat source directory whose
\* files f1_1.txt, f1_2.txt, ... all have different names
SourceFile(k, nnames) ==
    IF nnames = 0
    THEN Path(SubDir(0), Name(Stems[1], <<k>>, ".txt"))
    ELSE Path(SubDir((k - 1) \div nnames),
              Name(Stems[((k - 1) % nnames) + 1], <<>>, ".txt"))

\* the directories of that tree
SourceDirs(n, nnames) ==
    IF nnames = 0 THEN {SubDir(0)} ELSE { SubDir(g) : g \in 0..((n - 1) \div nnames) }

FileInfo(path) == [absolute_path |-> path, name |-> basename(path)]

\* os.path.join(target_base_dir, target_folder) for a text target_folder
JoinDir(base, folder) == IF folder = "" THEN base ELSE Append(base, folder)

\* the states of the target tree a run starts from: absent, holding a category
\* with a file named like a source file, holding two empty categories
TargetTrees ==
    { [dirs |-> {}, files |-> {}],
      [dirs |-> {TargetBase, JoinDir(TargetBase, "docs")},
       files |-> {Path(JoinDir(TargetBase, "docs"), Name("f1", <<>>, ".txt"))}],
      [dirs |-> {TargetBase, JoinDir(TargetBase, "docs"), JoinDir(TargetBase, "old")},
       files |-> {}] }

\* reason values of the response
Flags == { f \in [causal : BOOLEAN, feat : BOOLEAN, cert : BOOLEAN] : TRUE }

MarkerGroups(f) ==
    (IF f.causal THEN 1 ELSE 0) + (IF f.feat THEN 1 ELSE 0) + (IF f.cert THEN 1 ELSE 0)

\* the key is absent, null, "", 0, 7, and texts of 2, 50 and 51 characters; every
\* marker is two characters long, so a text with g marker groups has length >= 2g
AllReasons ==
    { NoText("missing"), NoText("null"), NoText("str"), NoText("num"),
      Reason("num", 7, FALSE, FALSE, FALSE) }
    \cup UNION { { Text(len, f.causal, f.feat, f.cert) :
                     f \in { g \in Flags : 2 * MarkerGroups(g) <= len } } :
                   len \in {2, 50, 51} }

AllFolders ==
    { Str("docs"), Str("pics"), Str(""), Other("null"), Other("num"), Other("list"),
      Other("missing") }

WideEntries ==
    {Absent, NonObject} \cup { Object(tf, r) : tf \in AllFolders, r \in AllReasons }

NarrowEntries ==
    { Absent, NonObject,
      Object(Str("docs"), Text(2, FALSE, FALSE, FALSE)),
      Object(Str("pics"), Text(51, TRUE, FALSE, FALSE)),
      Object(Str("docs"), NoText("null")),
      Object(Other("missing"), Text(2, FALSE, FALSE, FALSE)) }

\* runs of at most WideFiles files draw every entry, runs of at most MaxFiles
\* files the narrow ones, longer runs an answer that names none of the files
EntriesFor(total) ==
    IF total <= WideFiles THEN WideEntries
    ELSE IF total <= MaxFiles THEN NarrowEntries
    ELSE {Absent}

BatchNames(batch) == { batch[k].name : k \in 1..Len(batch) }

\* what the remote side may do with the request for batch
RemoteOutcomes(batch, total) ==
    { [remote |-> o, response |-> [n \in BatchNames(batch) |-> Absent]] :
        o \in {"service", "format"} }
    \cup { [remote |-> "parsed", response |-> r] :
             r \in [BatchNames(batch) -> EntriesFor(total)] }

(***************************************************************************)
(* ClassificationThread.run of ui/main_window.py and the MainWindow slots. *)
(***************************************************************************)
Event(type, value) == [type |-> type, value |-> value]

Min(a, b) == IF a < b THEN a ELSE b

\* Python floats are IEEE-754 doubles: a 53-bit significand, round-half-to-even.
\* A positive double is modelled as [m, s]: m = <<top, d1, d2, d3, d4>> are the
\* digits of the significand in base 2^13 below the leading digit top, and the
\* value is (top * 2^52 + d1 * 2^39 + d2 * 2^26 + d3 * 2^13 + d4) / 2^(52 + s).
Limb == 2^13

\* carries moved up so that every digit below the leading one is below Limb
Carry(x) ==
    LET a4 == x[5]
        a3 == x[4] + (a4 \div Limb)
        a2 == x[3] + (a3 \div Limb)
        a1 == x[2] + (a2 \div Limb)
        a0 == x[1] + (a1 \div Limb)
    IN  <<a0, a1 % Limb, a2 % Limb, a3 % Limb, a4 % Limb>>

\* the least s with p * 2^s >= t
RECURSIVE NormShift(_, _)
NormShift(p, t) == IF p >= t THEN 0 ELSE 1 + NormShift(2 * p, t)

\* number of bits of n >= 1
RECURSIVE BitLength(_)
BitLength(n) == IF n < 2 THEN 1 ELSE 1 + BitLength(n \div 2)

\* p / t for integers 0 < p <= t < 2^18: the correctly rounded quotient, by long
\* division (the leading bit, then four digits) and rounding on the remainder
FloatDiv(p, t) ==
    LET s  == NormShift(p, t)
        r0 == p * 2^s - t
        q1 == (r0 * Limb) \div t
        r1 == (r0 * Limb) % t
        q2 == (r1 * Limb) \div t
        r2 == (r1 * Limb) % t
        q3 == (r2 * Limb) \div t
        r3 == (r2 * Limb) % t
        q4 == (r3 * Limb) \div t
        r4 == (r3 * Limb) % t
        up == \/ 2 * r4 > t
              \/ 2 * r4 = t /\ q4 % 2 = 1
    IN  [m |-> Carry(<<1, q1, q2, q3, q4 + (IF up THEN 1 ELSE 0)>>), s |-> s]

\* x * c for an integer 1 <= c < 2^13: the exact product, rounded to 53 bits
\* (the k bits dropped lie in the last digit)
FloatMul(x, c) ==
    LET prod == Carry(<<x.m[1] * c, x.m[2] * c, x.m[3] * c, x.m[4] * c, x.m[5] * c>>)
        k    == BitLength(prod[1]) - 1
        low  == prod[5] % (2^k)
        half == IF k = 0 THEN 1 ELSE 2^(k - 1)
        up   == /\ k > 0
                /\ \/ low > half
                   \/ low = half /\ (prod[5] \div (2^k)) % 2 = 1
    IN  [m |-> Carry(<<prod[1], prod[2], prod[3], prod[4],
                       prod[5] - low + (IF up THEN 2^k ELSE 0)>>),
         s |-> x.s]

\* int(x): the integer part
FloatTrunc(x) == x.m[1] \div (2^(x.s))

\* min(100, int((i + len(batch)) / total_files * 100))
progress_value(processed, total_files) ==
    Min(100, FloatTrunc(FloatMul(FloatDiv(processed, total_files), 100)))

\* the progress value exact arithmetic gives: floor(processed / total_files * 100)
ExactPercent(processed, total_files) == (processed * 100) \div total_files

\* existing_categories: the sub-directories of the target base directory
ListCategories(d) ==
    IF TargetBase \in d
    THEN { x[Len(x)] : x \in { y \in d : Len(y) = Len(TargetBase) + 1
                                         /\ SubSeq(y, 1, Len(TargetBase)) = TargetBase } }
    ELSE {}

\* a faulty slice: the end index is taken inclusive
SliceInclusive(seq, from, size) == SubSeq(seq, from + 1, Min(from + size + 1, Len(seq)))

\* enhanced_info[i:i+batch_size]
Slice(seq, from, size) == SubSeq(seq, from + 1, Min(from + size, Len(seq)))

\* results.update(batch_results)
Update(old, new) ==
    [p \in DOMAIN old \cup DOMAIN new |-> IF p \in DOMAIN new THEN new[p] ELSE old[p]]

\* the state before a run over a source tree of n files with nnames display
\* names, n drawn from counts and nnames from namings; start is where the
\* worker object stands: "idle" (the window has not created its thread yet) or
\* "core_idle" (a core.classification_thread worker, constructed, not started)
InitTree(counts, namings, start) ==
    /\ \E n \in counts, nnames \in namings, tree \in TargetTrees :
         /\ nnames <= n
         /\ files = [k \in 1..n |-> FileInfo(SourceFile(k, nnames))]
         /\ fs = InitialFs({ SourceFile(k, nnames) : k \in 1..n } \cup tree.files)
         /\ dirs = SourceDirs(n, nnames) \cup tree.dirs
    /\ api_key \in BOOLEAN
    /\ last_call = [op |-> "none"]
    /\ ops = 0
    /\ thread = "none"
    /\ pc = start
    /\ i = 0
    /\ existing_categories = {}
    /\ results = <<>>
    /\ events = <<>>
    /\ delivered = <<>>
    /\ calls = <<>>
    /\ start_btn = TRUE
    /\ handled = 0
    /\ runs = 0
    /\ ClientIdle
    /\ InventoryIdle

\* ... and a database file that has just been created
InitWith(counts, namings, start) ==
    /\ InitTree(counts, namings, start)
    /\ StoreCreated

InitRun == InitWith(1..MaxFiles, 1..Len(Stems), "idle")

InitLargeRun == InitWith({LargeFiles}, {0}, "idle")

\* a faulty start: the buttons are left enabled while the worker runs
start_btn_left_enabled == TRUE

\* line 594, self.start_btn.setEnabled(False): the button while the worker runs
start_btn_while_running == FALSE

\* MainWindow.start_classification, the slot of start_btn.clicked (a disabled
\* button emits no clicked): the files under the source directory are
\* collected again, a new thread object takes the place of the previous one
\* (its signals, its calls and its results begin empty), the buttons are
\* disabled, the thread is started.  With no file left the slot returns
\* without a thread.  "overlapping" is the state of a window that has started
\* a thread while the previous one was still in run.
StartClassification ==
    /\ pc \in {"idle", "prepare", "loop", "done"}
    /\ start_btn
    /\ runs < MaxRuns
    /\ LET filtered_files == SelectSeq(files, LAMBDA f : f.absolute_path \in DOMAIN fs)
       IN  /\ Len(filtered_files) > 0
           /\ files' = filtered_files
    /\ start_btn' = start_btn_while_running
    /\ thread' = IF thread = "running" THEN "overlapping" ELSE "running"
    /\ pc' = "prepare"
    /\ i' = 0
    /\ existing_categories' = {}
    /\ results' = <<>>
    /\ events' = <<>>
    /\ delivered' = <<>>
    /\ calls' = <<>>
    /\ handled' = 0
    /\ runs' = runs + 1
    /\ UNCHANGED <<inventory_vars, mover_vars, store_vars, client_vars, api_key>>

\* run, up to the loop: the prepare status, the snapshot of the categories
RunPrepare ==
    /\ pc = "prepare"
    /\ events' = Append(events, Event("status", 0))
    /\ existing_categories' = ListCategories(dirs)
    /\ results' = <<>>
    /\ i' = 0
    /\ pc' = "loop"
    /\ UNCHANGED <<runs, inventory_vars, mover_vars, store_vars, client_vars, files, api_key, thread, delivered, calls,
                   start_btn, handled>>

\* a faulty call: the categories are listed again before every batch, the
\* folders the earlier batches returned included
CategoriesRefreshed ==
    existing_categories
      \cup { results[p].target_folder.v : p \in { q \in DOMAIN results :
                                                   results[q].target_folder.t = "str" } }

\* the categories handed to classify_files for the batch at i
CategoriesArgument == existing_categories

\* a faulty except branch: the finished signal is emitted on every exit of run
OnExceptionFinally(ev) == ev \o <<Event("error", 0), Event("finished", 0)>>

\* the except branch of run: self.error.emit(str(e))
OnException(ev) == Append(ev, Event("error", 0))

\* a faulty placement of the try: the except branch lies inside the loop
ExceptPositionInLoop == "loop"

\* where run continues after the except branch: it lies outside the loop, run returns
ExceptPosition == "done"

\* one iteration of "for i in range(0, total_files, batch_size)", with the
\* except branch of run when classify_files raises
RunBatch ==
    /\ pc = "loop"
    /\ i < Len(files)
    /\ LET total_files == Len(files)
           batch == Slice(files, i, batch_size)
           cats  == CategoriesArgument
       IN  \E o \in RemoteOutcomes(batch, total_files) :
             LET r == classify_files(batch, cats, api_key, o.remote, o.response)
                 call == [first |-> i + 1, size |-> Len(batch), categories |-> cats,
                          remote |-> o.remote, response |-> o.response,
                          sent |-> r.sent, raised |-> r.raised, error |-> r.error]
             IN  /\ calls' = Append(calls, call)
                 /\ IF r.raised
                    THEN /\ events' = OnException(Append(events, Event("status", 0)))
                         /\ pc' = ExceptPosition
                         /\ thread' = IF ExceptPosition = "done" THEN "finished" ELSE thread
                         /\ UNCHANGED <<results, i>>
                    ELSE /\ results' = Update(results, r.results)
                         /\ events' = events \o
                               <<Event("status", 0),
                                 Event("progress", progress_value(i + Len(batch), total_files))>>
                         /\ i' = i + batch_size
                         /\ UNCHANGED <<pc, thread>>
    /\ UNCHANGED <<runs, inventory_vars, mover_vars, store_vars, client_vars, files, api_key, existing_categories, delivered,
                   start_btn, handled>>

\* run, after the loop: the closing status and the finished signal
RunFinish ==
    /\ pc = "loop"
    /\ i >= Len(files)
    /\ events' = events \o <<Event("status", 0), Event("finished", 0)>>
    /\ delivered' = Append(delivered, results)
    /\ pc' = "done"
    /\ thread' = "finished"
    /\ UNCHANGED <<runs, inventory_vars, mover_vars, store_vars, client_vars, files, api_key, i, existing_categories, results,
                   calls, start_btn, handled>>

\* QTableWidgetItem(text) accepts a str (and an int, as the item type); None and a
\* list make it raise TypeError
Displayable(result) ==
    /\ result.target_folder.t \in {"str", "num"}
    /\ result.reason.t \in {"str", "num"}

\* one iteration of the loop of move_files_to_categories over results.items()
\* (insertion order is the order of files): os.path.join raises on a
\* target_folder that is no text, which ends the loop (acc.stopped)
MoveOne(acc, k, res) ==
    LET file_path == files[k].absolute_path
    IN  IF acc.stopped \/ file_path \notin DOMAIN res THEN acc
        ELSE IF res[file_path].target_folder.t # "str"
        THEN [fs |-> acc.fs, dirs |-> acc.dirs, stopped |-> TRUE]
        ELSE LET target_dir == JoinDir(TargetBase, res[file_path].target_folder.v)
                 r == move_file(acc.fs, acc.dirs \cup {TargetBase, target_dir}, file_path,
                                target_dir, NoName, "none")
             IN  [fs |-> r.fs, dirs |-> r.dirs, stopped |-> FALSE]

\* the iterations lo..hi of that loop, in order
RECURSIVE MoveRange(_, _, _, _)
MoveRange(acc, lo, hi, res) ==
    IF lo > hi THEN acc
    ELSE IF lo = hi THEN MoveOne(acc, lo, res)
    ELSE LET mid  == (lo + hi) \div 2
             left == MoveRange(acc, lo, mid, res)
         IN  IF left.stopped THEN left ELSE MoveRange(left, mid + 1, hi, res)

\* move_files_to_categories(results)
move_files_to_categories(f, d, res) ==
    MoveRange([fs |-> f, dirs |-> d, stopped |-> FALSE], 1, Len(files), res)

\* MainWindow.handle_classification_complete (slot of finished)
HandleClassificationComplete ==
    /\ pc = "done"
    /\ handled = 0
    /\ events[Len(events)].type = "finished"
    /\ handled' = 1
    /\ LET res == delivered[Len(delivered)]
       IN  IF \A p \in DOMAIN res : Displayable(res[p])
           THEN /\ start_btn' = TRUE
                /\ LET m == move_files_to_categories(fs, dirs, res)
                   IN  fs' = m.fs /\ dirs' = m.dirs
           ELSE UNCHANGED <<start_btn, fs, dirs>>
    /\ UNCHANGED <<runs, inventory_vars, last_call, ops, store_vars, client_vars, files, api_key, thread, pc, i,
                   existing_categories, results, events, delivered, calls>>

\* a faulty slot of error: the results gathered before the failure are moved
files_moved_after_error(f, d, res) == move_files_to_categories(f, d, res)

\* the files after handle_classification_error: the slot hides the progress
\* bar, enables the buttons and shows the message; it calls no mover
files_after_error(f, d, res) == [fs |-> f, dirs |-> d, stopped |-> FALSE]

\* MainWindow.handle_classification_error (slot of error)
HandleClassificationError ==
    /\ pc = "done"
    /\ handled = 0
    /\ events[Len(events)].type = "error"
    /\ handled' = 1
    /\ start_btn' = TRUE
    /\ LET m == files_after_error(fs, dirs, results)
       IN  fs' = m.fs /\ dirs' = m.dirs
    /\ UNCHANGED <<runs, inventory_vars, last_call, ops, store_vars, client_vars, files, api_key, thread, pc, i,
                   existing_categories, results, events, delivered, calls>>

Next ==
    \/ StartClassification
    \/ RunPrepare
    \/ RunBatch
    \/ RunFinish
    \/ HandleClassificationComplete
    \/ HandleClassificationError

Spec == InitRun /\ [][Next]_vars

SpecLargeRun == InitLargeRun /\ [][Next]_vars

(***************************************************************************)
(* ClassificationThread.run of core/classification_thread.py: one          *)
(* classify_files call over all the files, then the files are moved by the *)
(* worker itself, one by one.                                              *)
(***************************************************************************)
InitCore == InitWith(1..MaxCoreFiles, 1..Len(Stems), "core_idle")

\* the result the per-file except branch puts in place of the file's result
CoreError ==
    [target_folder |-> Str("Error"), reason |-> Text(9, FALSE, FALSE, FALSE),
     confidence |-> float_0_0]

\* run, up to the classify_files call: three status signals and
\* get_existing_categories, which creates a missing target base directory and
\* returns [] then, and also when it fails
CoreRunPrepare ==
    /\ pc = "core_idle"
    /\ thread' = "running"
    /\ events' = events \o <<Event("status", 0), Event("status", 0), Event("status", 0)>>
    /\ \E fault \in {"none", "makedirs"} :
         IF TargetBase \in dirs
         THEN /\ existing_categories' = ListCategories(dirs)
              /\ dirs' = dirs
         ELSE /\ existing_categories' = {}
              /\ dirs' = IF fault = "none" THEN dirs \cup {TargetBase} ELSE dirs
    /\ pc' = "core_classify"
    /\ UNCHANGED <<runs, inventory_vars, fs, last_call, ops, store_vars, client_vars, files, api_key, i, results, delivered,
                   calls, start_btn, handled>>

\* the classify_files call over self.files_info, with the outer except branch
CoreRunClassify ==
    /\ pc = "core_classify"
    /\ \E o \in RemoteOutcomes(files, Len(files)) :
         LET r == classify_files(files, existing_categories, api_key, o.remote, o.response)
             call == [first |-> 1, size |-> Len(files), categories |-> existing_categories,
                      remote |-> o.remote, response |-> o.response,
                      sent |-> r.sent, raised |-> r.raised, error |-> r.error]
         IN  /\ calls' = Append(calls, call)
             /\ IF r.raised
                THEN /\ events' = events \o <<Event("status", 0), Event("error", 0)>>
                     /\ pc' = "core_done"
                     /\ thread' = "finished"
                     /\ UNCHANGED <<results, i>>
                ELSE /\ events' = events \o <<Event("status", 0), Event("status", 0)>>
                     /\ results' = r.results
                     /\ i' = 0
                     /\ pc' = "core_loop"
                     /\ UNCHANGED thread
    /\ UNCHANGED <<runs, inventory_vars, mover_vars, store_vars, client_vars, files, api_key, existing_categories, delivered,
                   start_btn, handled>>

\* processed_count: it grows by one with every progress signal
ProcessedCount == Len(SelectSeq(events, LAMBDA e : e.type = "progress"))

\* one iteration of "for file_info in self.files_info": os.path.join raises on
\* a target_folder that is no text, the per-file except branch then replaces the
\* result; else the file is moved, a failed move is written into the result,
\* and the count of processed files is signalled
CoreRunFile ==
    /\ pc = "core_loop"
    /\ i < Len(files)
    /\ i' = i + 1
    /\ LET file_path == files[i + 1].absolute_path
           result == results[file_path]
       IN  IF result.target_folder.t # "str"
           THEN /\ results' = [results EXCEPT ![file_path] = CoreError]
                /\ UNCHANGED <<mover_vars, events>>
           ELSE \E fault \in Faults :
                  LET target_dir == JoinDir(TargetBase, result.target_folder.v)
                      r == move_file(fs, dirs, file_path, target_dir, NoName, fault)
                  IN  /\ fs' = r.fs
                      /\ dirs' = r.dirs
                      /\ last_call' = CallRecord("move", file_path, target_dir, NoName, r)
                      /\ ops' = ops
                      /\ results' = IF r.ok THEN results
                                    ELSE [results EXCEPT ![file_path] =
                                            [target_folder |-> result.target_folder,
                                             reason |-> result.reason,
                                             confidence |-> result.confidence,
                                             error |-> TRUE]]
                      /\ events' = events \o <<Event("status", 0), Event("status", 0),
                                                Event("progress", ProcessedCount + 1)>>
    /\ UNCHANGED <<runs, inventory_vars, store_vars, client_vars, files, api_key, thread, pc, existing_categories, delivered,
                   calls, start_btn, handled>>

\* run, after the loop: the summary status and the finished signal
CoreRunFinish ==
    /\ pc = "core_loop"
    /\ i >= Len(files)
    /\ events' = events \o <<Event("status", 0), Event("finished", 0)>>
    /\ delivered' = Append(delivered, results)
    /\ pc' = "core_done"
    /\ thread' = "finished"
    /\ UNCHANGED <<runs, inventory_vars, mover_vars, store_vars, client_vars, files, api_key, i, existing_categories, results,
                   calls, start_btn, handled>>

NextCore ==
    \/ CoreRunPrepare
    \/ CoreRunClassify
    \/ CoreRunFile
    \/ CoreRunFinish

\* both workers: the thread of the window and the worker of core
NextWorkers == Next \/ NextCore

InitWorkers == InitRun \/ InitCore

SpecWorkers == InitWorkers /\ [][NextWorkers]_vars

(***************************************************************************)
(* classify_files, the handling of the response text (lines 131-151).  A   *)
(* text is a sequence of characters: the braces, "k" for a key with its    *)
(* colon, "v" for a scalar value, the comma, and "x" for any character     *)
(* that JSON has no use for at that place (prose around the object).       *)
(***************************************************************************)
Chars == {"{", "}", "k", "v", ",", "x"}

Texts == UNION { [1..n -> Chars] : n \in 0..MaxText }

\* json.loads on such a text: the position after the value that starts at pos,
\* 0 if no value starts there
RECURSIVE ParseValue(_, _), ParseMembers(_, _)
ParseValue(t, pos) ==
    IF pos > Len(t) THEN 0
    ELSE IF t[pos] = "v" THEN pos + 1
    ELSE IF t[pos] = "{"
    THEN IF pos + 1 <= Len(t) /\ t[pos + 1] = "}" THEN pos + 2
         ELSE ParseMembers(t, pos + 1)
    ELSE 0

\* the members of an object from pos on, up to and including the closing brace
ParseMembers(t, pos) ==
    IF pos > Len(t) \/ t[pos] # "k" THEN 0
    ELSE LET q == ParseValue(t, pos + 1)
         IN  IF q = 0 \/ q > Len(t) THEN 0
             ELSE IF t[q] = "}" THEN q + 1
             ELSE IF t[q] = "," THEN ParseMembers(t, q + 1)
             ELSE 0

\* json.loads(t) returns (it raises JSONDecodeError otherwise)
json_loads(t) == ParseValue(t, 1) = Len(t) + 1

Positions(text, ch) == { k \in 1..Len(text) : text[k] = ch }

\* str.find(ch): the 0-based index of the first ch, -1 if there is none
find(text, ch) ==
    IF Positions(text, ch) = {} THEN -1
    ELSE (CHOOSE k \in Positions(text, ch) : \A m \in Positions(text, ch) : k <= m) - 1

\* a faulty search: the first ch is taken, not the last
index_of_first(text, ch) == find(text, ch)

\* str.rindex(ch): the 0-based index of the last ch (the caller has made sure
\* that there is one: rindex raises ValueError otherwise)
rindex(text, ch) ==
    IF Positions(text, ch) = {} THEN -1
    ELSE (CHOOSE k \in Positions(text, ch) : \A m \in Positions(text, ch) : k >= m) - 1

\* text[start:end] for 0 <= start and 0 <= end
PySlice(text, start, end) ==
    IF start >= end THEN <<>> ELSE SubSeq(text, start + 1, Min(end, Len(text)))

FormatError == [raised |-> TRUE, error |-> "format", json_text |-> <<>>]

\* lines 137-149: find, rindex (which raises when there is no closing brace),
\* the slice, json.loads; every ValueError becomes the response-format error
extract_json(text) ==
    IF Positions(text, "}") = {} THEN FormatError
    ELSE LET start_idx == find(text, "{")
             end_idx   == rindex(text, "}") + 1
         IN  IF start_idx # -1 /\ end_idx # -1
             THEN LET json_text == PySlice(text, start_idx, end_idx)
                  IN  IF json_loads(json_text)
                      THEN [raised |-> FALSE, error |-> "none", json_text |-> json_text]
                      ELSE FormatError
             ELSE FormatError

\* the batch of the call whose response is handled: one file
ClientBatch == <<FileInfo(SourceFile(1, 1))>>

\* the service has answered: response.choices[0].message.content
ReceiveResponse ==
    /\ json_result.state = "none"
    /\ result_text' \in Texts
    /\ json_result' = [state |-> "received"]
    /\ UNCHANGED <<inventory_vars, mover_vars, worker_vars, store_vars>>

\* the rest of classify_files: the extraction, and the result loop over the
\* batch when the text was parsed (the parsed object names none of the files)
HandleResponse ==
    /\ json_result.state = "received"
    /\ LET e == extract_json(result_text)
           r == RequestAndProcess(ClientBatch, {}, IF e.raised THEN e.error ELSE "parsed",
                                  [n \in BatchNames(ClientBatch) |-> Absent])
       IN  json_result' = [state |-> "done", raised |-> r.raised, error |-> r.error,
                           json_text |-> e.json_text, results |-> r.results]
    /\ UNCHANGED <<inventory_vars, result_text, mover_vars, worker_vars, store_vars>>

InitClient == InitWith({1}, {1}, "client")

NextClient == ReceiveResponse \/ HandleResponse

SpecClient == InitClient /\ [][NextClient]_vars

(***************************************************************************)
(* CategoryStorage (core/category_storage.py).  A table is the sequence of *)
(* its rows in rowid order.  Every method opens a connection and runs its  *)
(* statements in one transaction: "with sqlite3.connect(...) as conn"      *)
(* commits when the block ends and rolls back when it raises.  A fault     *)
(* names the statement of the method that raises sqlite3.Error.            *)
(***************************************************************************)
Db == [categories |-> categories, file_categories |-> file_categories,
       category_history |-> category_history]

\* id INTEGER PRIMARY KEY AUTOINCREMENT: larger than every id used before (no
\* statement of the class deletes a row of categories)
NextId(cats) ==
    IF cats = <<>> THEN 1
    ELSE 1 + (CHOOSE m \in { cats[k].id : k \in 1..Len(cats) } :
                \A k \in 1..Len(cats) : cats[k].id <= m)

\* a faulty insert: INSERT OR REPLACE, the row of the name is deleted and
\* written again under a new id
InsertOrReplaceCategory(cats, name, t) ==
    Append(SelectSeq(cats, LAMBDA r : r.name # name),
           [id |-> NextId(cats), name |-> name, created_at |-> t, updated_at |-> t])

\* a faulty insert: a plain INSERT into a table whose name is not UNIQUE
InsertPlainCategory(cats, name, t) ==
    Append(cats, [id |-> NextId(cats), name |-> name, created_at |-> t, updated_at |-> t])

\* INSERT OR IGNORE INTO categories (name) VALUES (?): name is UNIQUE
InsertOrIgnoreCategory(cats, name, t) ==
    IF \E k \in 1..Len(cats) : cats[k].name = name THEN cats
    ELSE Append(cats, [id |-> NextId(cats), name |-> name, created_at |-> t,
                       updated_at |-> t])

\* SELECT id FROM categories WHERE name = ?; 0 stands for "no row"
SelectCategoryId(cats, name) ==
    IF \E k \in 1..Len(cats) : cats[k].name = name
    THEN cats[CHOOSE k \in 1..Len(cats) : cats[k].name = name].id
    ELSE 0

\* a faulty insert: a plain INSERT into a table without the UNIQUE constraint
InsertAssignment(rows, row) == Append(rows, row)

\* INSERT OR REPLACE INTO file_categories: UNIQUE (file_path, category_id), the
\* row in conflict is deleted and the new row is written
InsertOrReplaceAssignment(rows, row) ==
    Append(SelectSeq(rows, LAMBDA r : ~(r.file_path = row.file_path
                                        /\ r.category_id = row.category_id)), row)

\* a faulty history: one row per (file_path, category_id), rewritten in place
InsertHistoryReplacing(h, row) ==
    Append(SelectSeq(h, LAMBDA r : ~(r.file_path = row.file_path
                                     /\ r.category_id = row.category_id)), row)

\* INSERT INTO category_history (file_path, category_id, action)
InsertHistory(h, row) == Append(h, row)

\* a faulty delete: the WHERE clause matches nothing
DeleteNothing(rows, file_path, category_id) == rows

\* DELETE FROM file_categories WHERE file_path = ? AND category_id = ?
DeleteAssignment(rows, file_path, category_id) ==
    SelectSeq(rows, LAMBDA r : ~(r.file_path = file_path /\ r.category_id = category_id))

\* a faulty rollback: the connection is in autocommit mode, every statement
\* that ran stays
RollbackKeepsPartial(before, partial) == partial

\* conn.rollback() of the context manager: the state before the transaction
Rollback(before, partial) == before

\* add_category: ret is cursor.rowcount > 0
AddCategoryFaults == {"none", "connect", "insert", "commit"}

add_category(db, t, category_name, fault) ==
    LET s1 == [db EXCEPT !.categories = InsertOrIgnoreCategory(@, category_name, t)]
        partial == IF fault = "commit" THEN s1 ELSE db
    IN  IF fault = "none"
        THEN [db |-> s1, ret |-> Len(s1.categories) > Len(db.categories), raised |-> FALSE]
        ELSE [db |-> Rollback(db, partial), ret |-> FALSE, raised |-> TRUE]

AddFileCategoryFaults ==
    {"none", "connect", "category", "select", "assignment", "history", "commit"}

add_file_category(db, t, file_path, category_name, confidence, fault) ==
    LET s1 == [db EXCEPT !.categories = InsertOrIgnoreCategory(@, category_name, t)]
        category_id == SelectCategoryId(s1.categories, category_name)
        s2 == [s1 EXCEPT !.file_categories =
                 InsertOrReplaceAssignment(@, [file_path |-> file_path,
                     category_id |-> category_id, confidence |-> confidence,
                     created_at |-> t])]
        s3 == [s2 EXCEPT !.category_history =
                 InsertHistory(@, [file_path |-> file_path, category_id |-> category_id,
                                   action |-> "add", created_at |-> t])]
        partial == IF fault \in {"connect", "category"} THEN db
                   ELSE IF fault \in {"select", "assignment"} THEN s1
                   ELSE IF fault = "history" THEN s2
                   ELSE s3
    IN  IF fault = "none" THEN [db |-> s3, ret |-> TRUE, raised |-> FALSE]
        ELSE [db |-> Rollback(db, partial), ret |-> FALSE, raised |-> TRUE]

RemoveFileCategoryFaults == {"none", "connect", "select", "delete", "history", "commit"}

\* remove_file_category: "if not result: return False" leaves the block
\* without a statement that writes
remove_file_category(db, t, file_path, category_name, fault) ==
    LET category_id == SelectCategoryId(db.categories, category_name)
        s1 == [db EXCEPT !.file_categories = DeleteAssignment(@, file_path, category_id)]
        s2 == [s1 EXCEPT !.category_history =
                 InsertHistory(@, [file_path |-> file_path, category_id |-> category_id,
                                   action |-> "remove", created_at |-> t])]
        partial == IF fault \in {"connect", "select", "delete"} THEN db
                   ELSE IF fault = "history" THEN s1
                   ELSE s2
    IN  IF fault \in {"connect", "select"} THEN [db |-> db, ret |-> FALSE, raised |-> TRUE]
        ELSE IF category_id = 0 THEN [db |-> db, ret |-> FALSE, raised |-> FALSE]
        ELSE IF fault = "none" THEN [db |-> s2, ret |-> TRUE, raised |-> FALSE]
        ELSE [db |-> Rollback(db, partial), ret |-> FALSE, raised |-> TRUE]
\* the paths of file_categories that os.path.exists does not find
MissingPathsAll(rows, f) == { rows[k].file_path : k \in 1..Len(rows) }

\* SELECT DISTINCT file_path FROM file_categories, "if not os.path.exists"
MissingPaths(rows, f) == { rows[k].file_path : k \in 1..Len(rows) } \ DOMAIN f

CleanupFaults == {"none", "connect", "select", "delete", "commit"}

\* cleanup_invalid_entries: ret is cleaned_count, the sum of cursor.rowcount
\* of the DELETE statements (a failing DELETE needs a path to delete)
cleanup_invalid_entries(db, f, fault) ==
    LET targets == MissingPaths(db.file_categories, f)
        s1 == [db EXCEPT !.file_categories =
                 SelectSeq(@, LAMBDA r : r.file_path \notin targets)]
        cleaned_count == Len(db.file_categories) - Len(s1.file_categories)
        partial == IF fault = "commit" THEN s1 ELSE db
    IN  IF fault = "none" \/ (fault = "delete" /\ targets = {})
        THEN [db |-> s1, ret |-> cleaned_count, raised |-> FALSE]
        ELSE [db |-> Rollback(db, partial), ret |-> 0, raised |-> TRUE]

\* ORDER BY confidence DESC
RECURSIVE SortByConfidence(_)
SortByConfidence(seq) ==
    IF seq = <<>> THEN <<>>
    ELSE LET k == CHOOSE k \in 1..Len(seq) :
                    /\ \A m \in 1..Len(seq) : seq[m].confidence <= seq[k].confidence
                    /\ \A m \in 1..(k - 1) : seq[m].confidence < seq[k].confidence
         IN  <<seq[k]>> \o SortByConfidence(SubSeq(seq, 1, k - 1)
                                             \o SubSeq(seq, k + 1, Len(seq)))

\* the name of the category with that id: <<name>>, or <<>> when the JOIN
\* finds no row
CategoryNames(cats, category_id) ==
    LET hit == SelectSeq(cats, LAMBDA c : c.id = category_id)
    IN  [k \in 1..Len(hit) |-> hit[k].name]

ReadFaults == {"none", "connect"}

\* get_file_categories: the list of {"category", "confidence"}
get_file_categories(db, file_path, fault) ==
    IF fault # "none" THEN <<>>
    ELSE LET mine == SelectSeq(db.file_categories,
                       LAMBDA r : r.file_path = file_path
                                  /\ CategoryNames(db.categories, r.category_id) # <<>>)
         IN  SortByConfidence([k \in 1..Len(mine) |->
                 [category |-> CategoryNames(db.categories, mine[k].category_id)[1],
                  confidence |-> mine[k].confidence]])

\* get_files_by_category: the list of file paths (ORDER BY file_path is not
\* modelled, the list is in table order)
get_files_by_category(db, category_name, fault) ==
    IF fault # "none" THEN <<>>
    ELSE LET hit == SelectSeq(db.file_categories,
                      LAMBDA r : CategoryNames(db.categories, r.category_id)
                                   = <<category_name>>)
         IN  [k \in 1..Len(hit) |-> hit[k].file_path]

\* get_all_categories: the list of names (ORDER BY name is not modelled, the
\* list is in id order)
get_all_categories(db, fault) ==
    IF fault # "none" THEN <<>>
    ELSE [k \in 1..Len(db.categories) |-> db.categories[k].name]

\* the file_path argument of get_category_history that is false to Python
\* (None, the default, or ""): no WHERE clause
NoPath == Path(<<>>, NoName)

\* the rows in the orders ORDER BY created_at DESC allows: created_at never
\* grows along the list, and rows of one created_at follow each other in an
\* order the statement does not fix (the sqlite3 of CPython 3 gives them in
\* rowid order, oldest first)
OrderByCreatedAtDesc(rows) ==
    LET n == Len(rows)
        orders == { o \in [1..n -> 1..n] :
                      /\ \A a, b \in 1..n : a # b => o[a] # o[b]
                      /\ \A a \in 1..n : \A b \in (a + 1)..n :
                            rows[o[a]].created_at >= rows[o[b]].created_at }
    IN  { [k \in 1..n |-> rows[o[k]]] : o \in orders }

\* get_category_history: the lists of {"file_path", "category", "action",
\* "timestamp"} the call may return
get_category_history(db, file_path, fault) ==
    IF fault # "none" THEN {<<>>}
    ELSE LET joined == SelectSeq(db.category_history,
                         LAMBDA r : /\ CategoryNames(db.categories, r.category_id) # <<>>
                                    /\ (file_path # NoPath => r.file_path = file_path))
         IN  { [k \in 1..Len(sorted) |->
                  [file_path |-> sorted[k].file_path,
                   category |-> CategoryNames(db.categories, sorted[k].category_id)[1],
                   action |-> sorted[k].action,
                   timestamp |-> sorted[k].created_at]] :
               sorted \in OrderByCreatedAtDesc(joined) }

(***************************************************************************)
(* The store driven directly by a caller: any sequence of its methods,     *)
(* over two files and two category names, while files vanish from disk.    *)
(***************************************************************************)
StorePaths == { SourceFile(k, Len(Stems)) : k \in 1..Len(Stems) }

StoreNames == {"docs", "pics"}

\* 0.3 and the default 1.0, in tenths
Confidences == {3, 10}

\* CURRENT_TIMESTAMP of a call: the clock does not run backwards
CallTimes == { t \in now..(now + 1) : t <= MaxClock }

\* the database file an earlier session left behind: one successful
\* add_file_category(path, "docs", 0.3) on a new database, at time 0
StoreKept ==
    \E q \in StorePaths :
      LET created == [categories |-> <<>>, file_categories |-> <<>>,
                      category_history |-> <<>>]
          r == add_file_category(created, 0, q, "docs", 3, "none")
      IN /\ categories = r.db.categories
         /\ file_categories = r.db.file_categories
         /\ category_history = r.db.category_history
         /\ now = 0
         /\ store_call = [op |-> "none"]
         /\ store_ops = 0

\* two files on disk, no target directory, and a database that is new or was
\* kept from an earlier session
InitStore ==
    /\ InitTree({Len(Stems)}, {Len(Stems)}, "store")
    /\ api_key
    /\ TargetBase \notin dirs
    /\ StoreCreated \/ StoreKept

\* the call at time t has left the database as db2 and returned
StoreStep(t, db2, call) ==
    /\ store_ops < MaxStoreOps
    /\ categories' = db2.categories
    /\ file_categories' = db2.file_categories
    /\ category_history' = db2.category_history
    /\ now' = t
    /\ store_call' = call
    /\ store_ops' = store_ops + 1
    /\ UNCHANGED <<inventory_vars, mover_vars, worker_vars, client_vars>>

AddCategory ==
    \E t \in CallTimes, n \in StoreNames, fault \in AddCategoryFaults :
      LET r == add_category(Db, t, n, fault)
      IN  StoreStep(t, r.db, [op |-> "add_category", category_name |-> n,
                              raised |-> r.raised, ret |-> r.ret])

AddFileCategory ==
    \E t \in CallTimes, p \in StorePaths, n \in StoreNames, x \in Confidences,
       fault \in AddFileCategoryFaults :
      LET r == add_file_category(Db, t, p, n, x, fault)
      IN  StoreStep(t, r.db, [op |-> "add_file_category", file_path |-> p,
                              category_name |-> n, confidence |-> x,
                              raised |-> r.raised, ret |-> r.ret])

RemoveFileCategory ==
    \E t \in CallTimes, p \in StorePaths, n \in StoreNames,
       fault \in RemoveFileCategoryFaults :
      LET r == remove_file_category(Db, t, p, n, fault)
      IN  StoreStep(t, r.db, [op |-> "remove_file_category", file_path |-> p,
                              category_name |-> n, raised |-> r.raised, ret |-> r.ret])

CleanupInvalidEntries ==
    \E t \in CallTimes, fault \in CleanupFaults :
      LET r == cleanup_invalid_entries(Db, fs, fault)
      IN  StoreStep(t, r.db, [op |-> "cleanup_invalid_entries",
                              raised |-> r.raised, ret |-> r.ret])

GetAllCategories ==
    \E t \in CallTimes, fault \in ReadFaults :
      StoreStep(t, Db, [op |-> "get_all_categories", raised |-> fault # "none",
                        ret |-> get_all_categories(Db, fault)])

GetFileCategories ==
    \E t \in CallTimes, p \in StorePaths, fault \in ReadFaults :
      StoreStep(t, Db, [op |-> "get_file_categories", file_path |-> p,
                        raised |-> fault # "none", ret |-> get_file_categories(Db, p, fault)])

GetFilesByCategory ==
    \E t \in CallTimes, n \in StoreNames, fault \in ReadFaults :
      StoreStep(t, Db, [op |-> "get_files_by_category", category_name |-> n,
                        raised |-> fault # "none",
                        ret |-> get_files_by_category(Db, n, fault)])

GetCategoryHistory ==
    \E t \in CallTimes, p \in StorePaths \cup {NoPath}, fault \in ReadFaults :
      \E ret \in get_category_history(Db, p, fault) :
        StoreStep(t, Db, [op |-> "get_category_history", file_path |-> p,
                          raised |-> fault # "none", ret |-> ret])

\* a file of the store's paths is deleted from disk, by the user or a program
FileVanishes ==
    /\ \E q \in StorePaths \cap DOMAIN fs :
         fs' = [p \in DOMAIN fs \ {q} |-> fs[p]]
    /\ UNCHANGED <<inventory_vars, dirs, last_call, ops, worker_vars, client_vars, store_vars>>

NextStore ==
    \/ AddCategory
    \/ AddFileCategory
    \/ RemoveFileCategory
    \/ CleanupInvalidEntries
    \/ GetAllCategories
    \/ GetFileCategories
    \/ GetFilesByCategory
    \/ GetCategoryHistory
    \/ FileVanishes

SpecStore == InitStore /\ [][NextStore]_vars

(***************************************************************************)
(* AIClassifier.enhance_files_info and _extract_content_preview            *)
(* (core/ai_classifier.py).  A file is its extension, whether open/read     *)
(* succeed, and its text: length characters, a space at each position of    *)
(* spaces and a letter elsewhere.                                           *)
(***************************************************************************)
\* the text of a file
TextOf(file) == [k \in 1..file.length |-> IF k \in file.spaces THEN " " ELSE "a"]

\* str.lower() on the extensions of the model
lower(extension) == IF extension = ".TXT" THEN ".txt" ELSE extension

text_extensions ==
    {".txt", ".md", ".py", ".java", ".cpp", ".h", ".c", ".js", ".html", ".css", ".xml",
     ".json", ".yaml", ".yml", ".ini", ".cfg", ".conf", ".log", ".sql", ".sh", ".bat", ".ps1"}

_is_text_file(extension) == lower(extension) \in text_extensions

\* None
None == [t |-> "none", v |-> <<>>]

\* _extract_content_preview(file_path, max_length): f.read(max_length), and
\* for a text of max_length characters the cut at the last space, followed by
\* "..."; every exception (open, decode, the ValueError of rindex when the
\* text has no space) gives None
_extract_content_preview(file, max_len) ==
    IF ~file.readable THEN None
    ELSE LET content == PySlice(TextOf(file), 0, max_len)
         IN  IF Len(content) = max_len
             THEN IF Positions(content, " ") = {} THEN None
                  ELSE Str(PySlice(content, 0, rindex(content, " ")) \o <<".", ".", ".">>)
             ELSE Str(content)

\* the loop body of enhance_files_info for one file: the keys the record gets
\* (content_preview only for a text file whose preview is truthy)
enhance_file(file) ==
    LET extension == lower(file.extension)
        preview == IF _is_text_file(extension)
                   THEN _extract_content_preview(file, max_length) ELSE None
        attached == preview.t = "str" /\ preview.v # <<>>
    IN  [state |-> "done", file |-> file, extension |-> extension,
         has_preview |-> attached,
         content_preview |-> IF attached THEN preview.v ELSE <<>>]

\* lengths around max_length and short ones; spaces at up to two of the
\* positions at the start and around max_length
PreviewLengths == (0..1) \cup ((max_length - Near)..(max_length + Near))

PreviewSpaces(n) ==
    { sp \in SUBSET (({1} \cup ((max_length - Near)..(max_length + Near))) \cap (1..n)) :
        Cardinality(sp) <= 2 }

PreviewExtensions == {".txt", ".TXT", ".bin"}

\* files_info holds one file, no target directory exists
InitPreview ==
    /\ InitWith({1}, {1}, "preview")
    /\ api_key
    /\ TargetBase \notin dirs

\* enhance_files_info handles the file of files_info
EnhanceFilesInfo ==
    /\ pc = "preview"
    /\ enhanced_info.state = "none"
    /\ \E e \in PreviewExtensions, r \in BOOLEAN, n \in PreviewLengths :
         \E sp \in PreviewSpaces(n) :
           enhanced_info' = enhance_file([extension |-> e, readable |-> r,
                                          length |-> n, spaces |-> sp])
    /\ UNCHANGED <<scan, mover_vars, worker_vars, client_vars, store_vars>>

NextPreview == EnhanceFilesInfo

SpecPreview == InitPreview /\ [][NextPreview]_vars

(***************************************************************************)
(* FileSystemHandler.collect_files_info (core/file_system.py): the walk    *)
(* over a directory, one os.stat per file, while files are deleted by      *)
(* others.  scan holds the argument, the directories os.walk has still to  *)
(* list (todo), the files of the listed directory that are still to be     *)
(* handled (pending), the files whose os.stat raised (failed) and the      *)
(* list files_info.                                                        *)
(***************************************************************************)
\* the files the source tree can hold, in the order a listing gives them
AllSourceFiles == [k \in 1..MaxScanFiles |-> SourceFile(k, Len(Stems))]

\* path lies in directory or in a directory beneath it
Beneath(directory, path) ==
    /\ Len(path.dir) >= Len(directory)
    /\ SubSeq(path.dir, 1, Len(directory)) = directory

\* the "files" of os.walk for directory d: the files that are in d when it is listed
ListFiles(f, d) == SelectSeq(AllSourceFiles, LAMBDA p : p \in DOMAIN f /\ p.dir = d)

\* the "dirs" of os.walk for directory d: its sub-directories
RECURSIVE SetToSeq(_)
SetToSeq(set) ==
    IF set = {} THEN <<>>
    ELSE LET x == CHOOSE x \in set : TRUE IN <<x>> \o SetToSeq(set \ {x})

ListDirs(ds, d) ==
    SetToSeq({ x \in ds : Len(x) = Len(d) + 1 /\ SubSeq(x, 1, Len(d)) = d })

\* the arguments of the model: the source directory, its first sub-directory,
\* and a directory that does not exist
ScanDirectories == {SubDir(0), SubDir(1), <<"gone">>}

\* the record of a file: name, absolute_path, relative_path (size and times
\* are what os.stat gave)
file_info(directory, path) ==
    [name |-> basename(path), absolute_path |-> path,
     relative_path |-> Path(SubSeq(path.dir, Len(directory) + 1, Len(path.dir)),
                            basename(path))]

\* a faulty handler: the exception of one file leaves the loops and is
\* raised again by the outer handler
stat_failed_fatal(sc, path) ==
    [sc EXCEPT !.state = "raised", !.error = "OSError", !.failed = @ \cup {path},
               !.pending = <<>>, !.todo = <<>>, !.files_info = <<>>]

\* lines 54-56: the exception of one file is logged, "continue"
stat_failed(sc, path) ==
    [sc EXCEPT !.failed = @ \cup {path}, !.pending = Tail(@)]

\* a source tree of up to MaxScanFiles files, no scan made yet
InitScan ==
    /\ InitTree(1..MaxScanFiles, {Len(Stems)}, "scan")
    /\ StoreCreated
    /\ api_key
    /\ TargetBase \notin dirs

\* lines 19-26: the call, and FileNotFoundError when the directory does not exist
ScanStart ==
    /\ pc = "scan"
    /\ scan.state = "none"
    /\ \E directory \in ScanDirectories :
         scan' = IF directory \notin dirs
                 THEN [state |-> "raised", error |-> "FileNotFoundError",
                       directory |-> directory, todo |-> <<>>, pending |-> <<>>,
                       failed |-> {}, files_info |-> <<>>]
                 ELSE [state |-> "walking", error |-> "none",
                       directory |-> directory, todo |-> <<directory>>, pending |-> <<>>,
                       failed |-> {}, files_info |-> <<>>]
    /\ UNCHANGED <<enhanced_info, mover_vars, worker_vars, client_vars, store_vars>>

\* line 29: os.walk lists the next directory, top-down
ScanListDirectory ==
    /\ scan.state = "walking"
    /\ scan.pending = <<>>
    /\ scan.todo # <<>>
    /\ LET root == Head(scan.todo)
       IN  scan' = [scan EXCEPT !.pending = ListFiles(fs, root),
                                !.todo = ListDirs(dirs, root) \o Tail(@)]
    /\ UNCHANGED <<enhanced_info, mover_vars, worker_vars, client_vars, store_vars>>

\* lines 31-56: one file of the listing; os.stat raises for a file that is
\* gone and when the environment refuses it
ScanFile ==
    /\ scan.state = "walking"
    /\ scan.pending # <<>>
    /\ \E fault \in {"none", "stat"} :
         LET file_path == Head(scan.pending)
         IN  scan' = IF file_path \in DOMAIN fs /\ fault = "none"
                     THEN [scan EXCEPT !.files_info =
                                          Append(@, file_info(scan.directory, file_path)),
                                       !.pending = Tail(@)]
                     ELSE stat_failed(scan, file_path)
    /\ UNCHANGED <<enhanced_info, mover_vars, worker_vars, client_vars, store_vars>>

\* lines 58-59: the walk is over, files_info is returned
ScanReturn ==
    /\ scan.state = "walking"
    /\ scan.pending = <<>>
    /\ scan.todo = <<>>
    /\ scan' = [scan EXCEPT !.state = "returned"]
    /\ UNCHANGED <<enhanced_info, mover_vars, worker_vars, client_vars, store_vars>>

\* a file beneath the scanned directory is deleted while the scan runs
ScanFileDeleted ==
    /\ scan.state = "walking"
    /\ \E q \in DOMAIN fs :
         /\ Beneath(scan.directory, q)
         /\ fs' = [p \in DOMAIN fs \ {q} |-> fs[p]]
    /\ UNCHANGED <<dirs, last_call, ops, inventory_vars, worker_vars, client_vars, store_vars>>

NextScan ==
    \/ ScanStart
    \/ ScanListDirectory
    \/ ScanFile
    \/ ScanReturn
    \/ ScanFileDeleted

SpecScan == InitScan /\ [][NextScan]_vars

(***************************************************************************)
(* Properties.                                                             *)
(***************************************************************************)
\* run has returned
Returned == pc \in {"done", "core_done"}


\* the run ended with the finished signal
Succeeded == events # <<>> /\ events[Len(events)].type = "finished"

\* the run ended with the error signal
Failed == events # <<>> /\ events[Len(events)].type = "error"

InputPaths == { files[k].absolute_path : k \in 1..Len(files) }

\* the indexes (in files) of the batch of the j-th classify_files call
BatchOf(j) == calls[j].first .. (calls[j].first + calls[j].size - 1)

\* the response of the j-th call holds no entry for the name of file k
Omitted(j, k) == calls[j].response[files[k].name].kind = "absent"

\* C1: when the run ends with the finished signal, the aggregate it carries has
\* an entry for exactly the input file paths, and every file whose name the
\* response of its batch left out has the fallback result, confidence 0.0.
C1_TotalCoverage ==
    Succeeded =>
      /\ Len(delivered) = 1
      /\ DOMAIN delivered[1] = InputPaths
      /\ \A j \in 1..Len(calls) : \A k \in BatchOf(j) :
            Omitted(j, k) => /\ delivered[1][files[k].absolute_path] = Fallback
                             /\ delivered[1][files[k].absolute_path].confidence = float_0_0

\* C1 witness: a successful run of several batches in which a response left out
\* a file, named another, and two files of one batch share a display name.
C1_Witness ==
    /\ Succeeded
    /\ Len(calls) >= 2
    /\ \E j \in 1..Len(calls) :
         /\ \E k \in BatchOf(j) : Omitted(j, k)
         /\ \E k \in BatchOf(j) : ~Omitted(j, k)
         /\ \E k1, k2 \in BatchOf(j) : k1 # k2 /\ files[k1].name = files[k2].name

\* the positions of the terminal signals among the emitted signals
TerminalIndexes == { k \in 1..Len(events) : events[k].type \in {"finished", "error"} }

\* C3: a run emits at most one terminal signal (finished or error), nothing is
\* emitted after it, and a run that has returned has emitted exactly one.
C3_OneTerminalEvent ==
    /\ Cardinality(TerminalIndexes) <= 1
    /\ \A k \in TerminalIndexes : k = Len(events)
    /\ Returned <=> Cardinality(TerminalIndexes) = 1

\* C3 witness: a run that reported progress and then ended with the error signal.
C3_Witness ==
    /\ Returned
    /\ Failed
    /\ \E k \in 1..Len(events) : events[k].type = "progress"

\* C4: a classify_files call that raises is the last call of the run: the run
\* has returned with the error signal and without the finished signal; and no
\* batch is handed to classify_files twice.
C4_AbortWithoutRetry ==
    /\ \A j \in 1..Len(calls) :
          calls[j].raised => /\ j = Len(calls)
                             /\ pc = "done"
                             /\ Failed
                             /\ \A k \in 1..Len(events) : events[k].type # "finished"
                             /\ delivered = <<>>
    /\ \A j1, j2 \in 1..Len(calls) : calls[j1].first = calls[j2].first => j1 = j2

\* C4 witness: the second or a later batch raised and the error was handled.
C4_Witness ==
    /\ Len(calls) >= 2
    /\ calls[Len(calls)].raised
    /\ handled = 1

\* the parsed response of the j-th call holds a malformed entry for file k
Malformed(j, k) ==
    /\ calls[j].remote = "parsed"
    /\ Raises(calls[j].response[files[k].name], calls[j].categories)

\* C5: a malformed entry for one file costs only that file: the run still ends
\* with the finished signal, the file has a result of confidence 0.0.
C5_MalformedEntryAbsorbed ==
    \A j \in 1..Len(calls) : \A k \in BatchOf(j) :
      (Malformed(j, k) /\ pc = "done") =>
         /\ Succeeded
         /\ files[k].absolute_path \in DOMAIN results
         /\ results[files[k].absolute_path].confidence = float_0_0

\* C6: after a successful run whose results have been handled, the store holds,
\* for every file of the aggregate, the assignment to its target folder with
\* the confidence of the result, and an "add" history row.
C6_ResultsPersisted ==
    (Succeeded /\ handled = 1) =>
      \A p \in DOMAIN delivered[1] :
        /\ \E r \in 1..Len(file_categories), c \in 1..Len(categories) :
              /\ file_categories[r].file_path = p
              /\ file_categories[r].category_id = categories[c].id
              /\ categories[c].name = delivered[1][p].target_folder.v
              /\ file_categories[r].confidence = delivered[1][p].confidence
        /\ \E h \in 1..Len(category_history) :
              /\ category_history[h].file_path = p
              /\ category_history[h].action = "add"

\* C7: the j-th classify_files call gets the files batch_size*(j-1)+1 .. of the
\* list, batch_size of them or what is left; a run that ends with the finished
\* signal made ceil(N / batch_size) calls, the last one with
\* N - batch_size*(calls - 1) files.
C7_Batches ==
    LET N == Len(files)
    IN  /\ \A j \in 1..Len(calls) :
              /\ calls[j].first = batch_size * (j - 1) + 1
              /\ calls[j].size = Min(batch_size, N - batch_size * (j - 1))
              /\ calls[j].size >= 1
        /\ Succeeded =>
              /\ Len(calls) = (N + batch_size - 1) \div batch_size
              /\ calls[Len(calls)].size = N - batch_size * (Len(calls) - 1)

\* C7 witness: a successful run of three batches, the last one not full.
C7_Witness ==
    /\ Succeeded
    /\ Len(calls) = 3
    /\ calls[1].size = batch_size
    /\ calls[2].size = batch_size
    /\ calls[3].size < batch_size

\* the progress signals, in order
ProgressEvents == SelectSeq(events, LAMBDA e : e.type = "progress")

\* C8: one progress signal per successful call, the j-th with the value
\* floor(files processed / total files * 100).
C8_ProgressIsFloor ==
    /\ Len(ProgressEvents) = Cardinality({ j \in 1..Len(calls) : ~calls[j].raised })
    /\ \A j \in 1..Len(ProgressEvents) :
          ProgressEvents[j].value
            = ExactPercent(Min(j * batch_size, Len(files)), Len(files))

\* C9: every classify_files call of the run gets the categories listed before
\* the first batch: the sub-directories of the target base directory as they
\* were when the run started (the target tree does not change before the
\* terminal signal is handled).
C9_FrozenCategories ==
    \A j \in 1..Len(calls) :
      /\ calls[j].categories = calls[1].categories
      /\ calls[j].categories = existing_categories
      /\ handled = 0 => calls[j].categories = ListCategories(dirs)

\* C9 witness: a later call is made after an earlier batch returned a target
\* folder that is not among the categories.
C9_Witness ==
    /\ Len(calls) >= 2
    /\ \E k \in BatchOf(1) :
         /\ files[k].absolute_path \in DOMAIN results
         /\ results[files[k].absolute_path].target_folder.t = "str"
         /\ results[files[k].absolute_path].target_folder.v \notin calls[2].categories

\* C10: every confidence of a result is in [0, 1].
C10_ConfidenceRange ==
    /\ \A p \in DOMAIN results :
          float_le(float_0_0, results[p].confidence) /\ float_le(results[p].confidence, float_1_0)
    /\ \A d \in 1..Len(delivered) : \A p \in DOMAIN delivered[d] :
          /\ float_le(float_0_0, delivered[d][p].confidence)
          /\ float_le(delivered[d][p].confidence, float_1_0)

\* C10 witness: a result whose reason is long and holds a marker of every
\* group: it has every bonus, and its confidence is above that of every other
\* reason.
C10_Witness ==
    \E p \in DOMAIN results :
      /\ results[p].reason.len > 50
      /\ results[p].reason.causal /\ results[p].reason.feat /\ results[p].reason.cert
      /\ ~float_le(results[p].confidence,
                   calculate_confidence([reason |-> Text(51, TRUE, TRUE, FALSE)]))

\* C11: with no API key in the configuration every classify_files call fails
\* with the configuration error and has sent no request.
C11_NoKeyNoRequest ==
    ~api_key => \A j \in 1..Len(calls) : /\ calls[j].raised
                                         /\ calls[j].error = "config"
                                         /\ ~calls[j].sent

\* C11 witness: a run without a key whose first call failed; the error is handled.
C11_Witness ==
    /\ ~api_key
    /\ Len(calls) = 1
    /\ calls[1].error = "config"
    /\ Failed
    /\ handled = 1

\* the first opening brace and the last closing brace of the text (1-based)
FirstOpen == CHOOSE k \in Positions(result_text, "{") :
               \A m \in Positions(result_text, "{") : k <= m

LastClose == CHOOSE k \in Positions(result_text, "}") :
               \A m \in Positions(result_text, "}") : k >= m

\* the four cases in which the text holds no JSON object
NoJsonObject ==
    \/ Positions(result_text, "{") = {}
    \/ Positions(result_text, "}") = {}
    \/ LastClose < FirstOpen
    \/ ~json_loads(SubSeq(result_text, FirstOpen, LastClose))

\* C12: a text without an opening brace, without a closing brace, with its
\* last closing brace before its first opening brace, or whose part from the
\* first opening to the last closing brace is no valid JSON, makes
\* classify_files fail with the response-format error and without a result
\* for any file; otherwise exactly that part of the text is parsed.
C12_ExtractJson ==
    json_result.state = "done" =>
      IF NoJsonObject
      THEN /\ json_result.raised
           /\ json_result.error = "format"
           /\ json_result.results = <<>>
      ELSE /\ ~json_result.raised
           /\ json_result.json_text = SubSeq(result_text, FirstOpen, LastClose)

\* C12 witness: an object between prose is parsed, the prose is dropped.
C12_Witness ==
    /\ json_result.state = "done"
    /\ ~json_result.raised
    /\ Len(json_result.json_text) > 2
    /\ Len(json_result.json_text) < Len(result_text)
    /\ DOMAIN json_result.results # {}

\* C13: every result of a delivered aggregate has a target folder that is a
\* non-empty text.
C13_TargetFolderNonEmptyText ==
    \A d \in 1..Len(delivered) : \A p \in DOMAIN delivered[d] :
      /\ delivered[d][p].target_folder.t = "str"
      /\ delivered[d][p].target_folder.v # ""

\* the name a call asked for: new_name if given, else the source's base name
RequestedName(c) == IF c.new_name # NoName THEN c.new_name ELSE basename(c.source)

\* C2: move_file / copy_file never overwrite.  In every call, each file that
\* existed before the call (other than the source a successful move takes away)
\* is still at its path with the same content afterwards, and a successful call
\* writes the source's content at a path that held no file before the call.
C2_NeverOverwrites ==
    [][ LET c == last_call'
        IN  /\ \A p \in DOMAIN fs :
                  ~(c.op = "move" /\ c.ok /\ p = c.source)
                     => (p \in DOMAIN fs' /\ fs'[p] = fs[p])
            /\ c.ok => /\ c.dest \notin DOMAIN fs
                       /\ c.dest \in DOMAIN fs'
                       /\ fs'[c.dest] = fs[c.source] ]_vars

\* C2 witness: a successful call whose requested name was taken: the file went to
\* another name and the file that held the requested name is still there.
C2_Witness ==
    /\ last_call.op \in {"move", "copy"}
    /\ last_call.ok
    /\ last_call.dest.name # RequestedName(last_call)
    /\ LET q == Path(last_call.target_dir, RequestedName(last_call))
       IN  q \in DOMAIN fs /\ fs[q] = q /\ q # last_call.source

\* a call of the store has returned in this step
Called == store_ops' = store_ops + 1

\* the entries that get_file_categories(p) lists for category n
EntriesOf(db, p, n) ==
    SelectSeq(get_file_categories(db, p, "none"), LAMBDA e : e.category = n)

\* no two rows of the table hold the same (file_path, category_id)
OneRowPerPair(rows) ==
    \A a, b \in 1..Len(rows) :
        (rows[a].file_path = rows[b].file_path
         /\ rows[a].category_id = rows[b].category_id) => a = b

\* the call that returned in this step wrote or deleted the assignment (p, n)
Affects(c, p, n) ==
    /\ ~c.raised
    /\ \/ c.op \in {"add_file_category", "remove_file_category"}
          /\ c.file_path = p /\ c.category_name = n
       \/ c.op = "cleanup_invalid_entries" /\ p \notin DOMAIN fs

\* C14: file_categories holds at most one row per (file_path, category_id).  A
\* successful add_file_category(p, n, x) leaves get_file_categories(p) with
\* exactly one entry for n, of confidence x, and every call that does not write
\* or delete the assignment (p, n), an add of p to another category included,
\* leaves the entries of (p, n) as they were: the entry of the last add stays
\* until a remove or a cleanup of a missing p.
C14_OneRowPerPair ==
    [][ LET c == store_call'
        IN  /\ OneRowPerPair(file_categories')
            /\ (Called /\ c.op = "add_file_category" /\ c.ret)
                  => EntriesOf(Db', c.file_path, c.category_name)
                        = <<[category |-> c.category_name, confidence |-> c.confidence]>>
            /\ Called => \A p \in StorePaths, n \in StoreNames :
                            ~Affects(c, p, n) => EntriesOf(Db', p, n) = EntriesOf(Db, p, n) ]_vars

\* C14 witness: a successful add_file_category(p, n, x) for a pair that had been
\* added before (two "add" rows in the history), while p is also assigned to
\* another category: p is listed with two categories, n once with confidence x.
C14_Witness ==
    /\ store_call.op = "add_file_category"
    /\ store_call.ret
    /\ LET p == store_call.file_path
           id == SelectCategoryId(categories, store_call.category_name)
           adds == SelectSeq(category_history,
                     LAMBDA h : h.file_path = p /\ h.category_id = id /\ h.action = "add")
       IN  /\ Len(adds) >= 2
           /\ Len(get_file_categories(Db, p, "none")) = 2
           /\ EntriesOf(Db, p, store_call.category_name)
                 = <<[category |-> store_call.category_name,
                      confidence |-> store_call.confidence]>>

\* the names of the rows of categories
NamesOf(cats) == { cats[k].name : k \in 1..Len(cats) }

\* C15: add_file_category is all or nothing.  When it returns True the category
\* exists, the assignment row of the pair holds the given confidence and the
\* history is the history before the call with one "add" row appended; when it
\* returns False (a statement raised) categories, file_categories and
\* category_history are exactly as before the call.
C15_AddIsAtomic ==
    [][ LET c == store_call'
            id == SelectCategoryId(categories', c.category_name)
        IN  (Called /\ c.op = "add_file_category") =>
              \/ /\ c.ret
                 /\ c.category_name \in NamesOf(categories')
                 /\ \E k \in 1..Len(file_categories') :
                       /\ file_categories'[k].file_path = c.file_path
                       /\ file_categories'[k].category_id = id
                       /\ file_categories'[k].confidence = c.confidence
                 /\ category_history' =
                       Append(category_history,
                              [file_path |-> c.file_path, category_id |-> id,
                               action |-> "add", created_at |-> now'])
              \/ /\ ~c.ret
                 /\ c.raised
                 /\ Db' = Db ]_vars

\* C15 witness: add_file_category has returned False for a category name that
\* the database does not hold: the category row a first statement may have
\* written is not there, and neither is an assignment or a history row.
C15_Witness ==
    /\ store_call.op = "add_file_category"
    /\ ~store_call.ret
    /\ store_call.raised
    /\ store_call.category_name \notin NamesOf(categories)
    /\ file_categories = <<>>
    /\ category_history = <<>>

\* the table holds a row of file file_path and the category of that name
Assigned(db, file_path, category_name) ==
    \E k \in 1..Len(db.file_categories) :
        /\ db.file_categories[k].file_path = file_path
        /\ db.file_categories[k].category_id
              = SelectCategoryId(db.categories, category_name)

\* C16: remove_file_category writes a "remove" history row only if the assignment
\* (file_path, category) existed when it was called.  A call for a pair without
\* an assignment row leaves category_history, file_categories and categories
\* unchanged.
C16_RemoveOfNothingWritesNothing ==
    [][ LET c == store_call'
        IN  (Called /\ c.op = "remove_file_category"
                    /\ ~Assigned(Db, c.file_path, c.category_name))
               => Db' = Db ]_vars

\* the "add" rows of the history for file file_path and category category_id
AddRows(h, file_path, category_id) ==
    SelectSeq(h, LAMBDA r : r.file_path = file_path /\ r.category_id = category_id
                            /\ r.action = "add")

\* C17: after remove_file_category(p, n) has returned True,
\* get_files_by_category(n) does not contain p, and the last row of the history
\* is a "remove" row of (p, n) whose created_at is at least the created_at of
\* every "add" row of (p, n) written before it (CURRENT_TIMESTAMP of a clock that
\* does not run backwards).
C17_RemoveAfterAdd ==
    [][ LET c == store_call'
            id == SelectCategoryId(categories, c.category_name)
            listed == get_files_by_category(Db', c.category_name, "none")
            adds == AddRows(category_history, c.file_path, id)
        IN  (Called /\ c.op = "remove_file_category" /\ c.ret) =>
              /\ \A k \in 1..Len(listed) : listed[k] # c.file_path
              /\ category_history' =
                    Append(category_history,
                           [file_path |-> c.file_path, category_id |-> id,
                            action |-> "remove", created_at |-> now'])
              /\ \A k \in 1..Len(adds) : adds[k].created_at <= now' ]_vars

\* C17 witness: remove_file_category(p, n) has returned True for a pair that had
\* been added: the history holds the "add" row and, later, the "remove" row, p
\* is not listed under n, and another file still is.
C17_Witness ==
    /\ store_call.op = "remove_file_category"
    /\ store_call.ret
    /\ LET p == store_call.file_path
           id == SelectCategoryId(categories, store_call.category_name)
           last == category_history[Len(category_history)]
           listed == get_files_by_category(Db, store_call.category_name, "none")
       IN  /\ AddRows(category_history, p, id) # <<>>
           /\ last.action = "remove" /\ last.file_path = p /\ last.category_id = id
           /\ last.created_at > AddRows(category_history, p, id)[1].created_at
           /\ Len(listed) = 1 /\ listed[1] # p

\* C18: a cleanup_invalid_entries that runs to its commit leaves in
\* file_categories exactly the rows whose file_path exists on disk, in their
\* order, and returns the number of rows it deleted; category_history and
\* categories are unchanged; a second run on the result, the filesystem being
\* the same, deletes nothing and returns 0.  (A run in which a statement raises
\* is rolled back: it deletes nothing and returns 0.)
C18_CleanupDeletesMissing ==
    [][ LET c == store_call'
            again == cleanup_invalid_entries(Db', fs', "none")
        IN  (Called /\ c.op = "cleanup_invalid_entries") =>
              /\ category_history' = category_history
              /\ categories' = categories
              /\ c.ret = Len(file_categories) - Len(file_categories')
              /\ c.raised => (file_categories' = file_categories /\ c.ret = 0)
              /\ ~c.raised =>
                    /\ file_categories' =
                          SelectSeq(file_categories, LAMBDA r : r.file_path \in DOMAIN fs)
                    /\ again.ret = 0
                    /\ again.db = Db' ]_vars

\* C18 witness: cleanup_invalid_entries has deleted a row and kept a row: the
\* history names a file that is not on disk and has no assignment any more,
\* and the remaining assignments are of files on disk.
C18_Witness ==
    /\ store_call.op = "cleanup_invalid_entries"
    /\ store_call.ret > 0
    /\ file_categories # <<>>
    /\ \A k \in 1..Len(file_categories) : file_categories[k].file_path \in DOMAIN fs
    /\ \E k \in 1..Len(category_history) :
          /\ category_history[k].file_path \notin DOMAIN fs
          /\ category_history[k].action = "add"
    /\ Len(category_history) = 2

\* C19: category_history is append-only.  In every step of every sequence of
\* store calls the history before the step is a prefix of the history after
\* it (no row is changed or deleted, the number of rows does not decrease), and
\* the action of every row is "add" or "remove".
C19_HistoryAppendOnly ==
    [][ /\ Len(category_history') >= Len(category_history)
        /\ SubSeq(category_history', 1, Len(category_history)) = category_history
        /\ \A k \in 1..Len(category_history') :
              category_history'[k].action \in {"add", "remove"} ]_vars

\* C19 witness: cleanup_invalid_entries has deleted every assignment, and the
\* history still holds the "add" rows of the deleted assignments.
C19_Witness ==
    /\ store_call.op = "cleanup_invalid_entries"
    /\ store_call.ret >= 2
    /\ file_categories = <<>>
    /\ Len(category_history) >= 2
    /\ \A k \in 1..Len(category_history) :
          /\ category_history[k].action = "add"
          /\ category_history[k].file_path \notin DOMAIN fs

\* the ids of the rows of categories
IdsOf(cats) == { cats[k].id : k \in 1..Len(cats) }

\* C20: categories only accumulate.  In every step the names that
\* get_all_categories returns before the step are among those it returns after
\* it, and every row of file_categories and of category_history holds the id
\* of a row of categories.
C20_CategoriesAccumulate ==
    [][ LET before == get_all_categories(Db, "none")
            after == get_all_categories(Db', "none")
        IN  /\ \A k \in 1..Len(before) : \E m \in 1..Len(after) : after[m] = before[k]
            /\ \A k \in 1..Len(file_categories') :
                  file_categories'[k].category_id \in IdsOf(categories')
            /\ \A k \in 1..Len(category_history') :
                  category_history'[k].category_id \in IdsOf(categories') ]_vars

\* C20 witness: remove_file_category has deleted the last assignment of a
\* category: no assignment row is left, and the category is still listed.
C20_Witness ==
    /\ store_call.op = "remove_file_category"
    /\ store_call.ret
    /\ file_categories = <<>>
    /\ \E k \in 1..Len(category_history) :
          /\ category_history[k].action = "add"
          /\ category_history[k].file_path = store_call.file_path
          /\ category_history[k].category_id
                = SelectCategoryId(categories, store_call.category_name)
    /\ \E m \in 1..Len(get_all_categories(Db, "none")) :
          get_all_categories(Db, "none")[m] = store_call.category_name

\* C21: add_category is idempotent and reports insertion.  A call that runs to
\* its commit returns True exactly when the name was in no row of categories
\* (rows written by add_file_category included); afterwards the name is in
\* exactly one row, the rows that were there are unchanged, file_categories and
\* category_history are unchanged, and a further call with the same name
\* returns False and changes nothing.  (A call in which a statement raises
\* returns False and changes nothing.)
C21_AddCategoryIdempotent ==
    [][ LET c == store_call'
            again == add_category(Db', now', c.category_name, "none")
        IN  (Called /\ c.op = "add_category") =>
              /\ file_categories' = file_categories
              /\ category_history' = category_history
              /\ SubSeq(categories', 1, Len(categories)) = categories
              /\ c.raised => (~c.ret /\ categories' = categories)
              /\ ~c.raised =>
                    /\ c.ret <=> c.category_name \notin NamesOf(categories)
                    /\ Cardinality({ k \in 1..Len(categories') :
                                       categories'[k].name = c.category_name }) = 1
                    /\ Len(categories') = Len(categories) + (IF c.ret THEN 1 ELSE 0)
                    /\ ~again.ret
                    /\ again.db = Db' ]_vars

\* C21 witness: add_category has returned False, without an error, for a name
\* whose row was written by add_file_category: the history holds an "add" row of
\* that category and the name is in one row.
C21_Witness ==
    /\ store_call.op = "add_category"
    /\ ~store_call.ret
    /\ ~store_call.raised
    /\ Cardinality({ k \in 1..Len(categories) :
                       categories[k].name = store_call.category_name }) = 1
    /\ \E k \in 1..Len(category_history) :
          /\ category_history[k].action = "add"
          /\ category_history[k].category_id
                = SelectCategoryId(categories, store_call.category_name)

\* C22: the destination name of a successful move_file / copy_file is the
\* requested name when no file of the target directory has it, and otherwise
\* base_k+ext for the smallest k >= 1 whose name no file of the directory has.
\* Hence moves of files named a.txt into a directory holding a.txt go to
\* a_1.txt, a_2.txt, ... in that order.
C22_DestinationName ==
    [][ LET c == last_call'
            wanted == RequestedName(c)
            taken(n) == Path(c.target_dir, n) \in DOMAIN fs
        IN  (ops' = ops + 1 /\ c.ok) =>
              IF ~taken(wanted) THEN c.dest = Path(c.target_dir, wanted)
              ELSE \E k \in 1..(Cardinality(DOMAIN fs) + 1) :
                     /\ c.dest = Path(c.target_dir, Suffixed(wanted, k))
                     /\ ~taken(Suffixed(wanted, k))
                     /\ \A j \in 1..(k - 1) : taken(Suffixed(wanted, j)) ]_vars

\* C22 witness: the target directory held a.txt, two files named a.txt have been
\* moved into it one after the other: the first is a_1.txt, the second, moved
\* by the last call, is a_2.txt, and a.txt is the file it was.
C22_Witness ==
    LET a == Name("a", <<>>, ".txt")
        at(n) == Path(TargetDir, n)
    IN  /\ ops = 2
        /\ last_call.op = "move"
        /\ last_call.ok
        /\ last_call.new_name = NoName
        /\ last_call.dest = at(Suffixed(a, 2))
        /\ { p \in DOMAIN fs : p.dir = TargetDir } = {at(a), at(Suffixed(a, 1)), at(Suffixed(a, 2))}
        /\ fs[at(a)] = at(a)
        /\ fs[at(Suffixed(a, 2))] = last_call.source
        /\ fs[at(Suffixed(a, 1))] \in SourcePaths \ {last_call.source, at(a)}
        /\ \A sd \in SrcDirs : Path(sd, a) \notin DOMAIN fs

\* C23: move_file returns False, and lets no exception out, whenever an
\* underlying operation fails (the source does not exist, os.makedirs of the
\* target directory fails, shutil.move fails), and returns True only when the
\* content of the source is at the chosen destination path, inside the target
\* directory.
C23_MoveReturnsBool ==
    [][ LET c == last_call'
        IN  (ops' = ops + 1 /\ c.op = "move") =>
              /\ c.ok \in BOOLEAN
              /\ c.ok <=> c.error = "none"
              /\ c.source \notin DOMAIN fs => ~c.ok
              /\ c.target_dir \notin dirs' => ~c.ok
              /\ c.ok => /\ c.dest \in DOMAIN fs'
                         /\ fs'[c.dest] = fs[c.source]
                         /\ c.dest.dir = c.target_dir
                         /\ c.target_dir \in dirs' ]_vars

\* C23 witness: move_file has returned False because the target directory
\* could not be created: the source is where it was and the directory does
\* not exist.
C23_Witness ==
    /\ last_call.op = "move"
    /\ ~last_call.ok
    /\ last_call.error = "makedirs"
    /\ last_call.source \in DOMAIN fs
    /\ last_call.target_dir \notin dirs

\* C24: every content preview that enhance_files_info attaches to a file
\* record has at most 1000 characters, whatever the file's text is.
C24_PreviewAtMostMaxLength ==
    (enhanced_info.state = "done" /\ enhanced_info.has_preview)
        => Len(enhanced_info.content_preview) <= max_length

\* the paths of the records of the scan
RecordPaths == { scan.files_info[k].absolute_path : k \in 1..Len(scan.files_info) }

\* the files that were beneath the scanned directory when the scan began
ScannedFiles ==
    { p \in { files[k].absolute_path : k \in 1..Len(files) } : Beneath(scan.directory, p) }

ScoreTenths(reason) ==
    IF reason.t = "str" /\ reason.len > 0
    THEN Min(10, 5 + (IF reason.len > 50 THEN 2 ELSE 0) + (IF reason.causal THEN 1 ELSE 0)
                   + (IF reason.feat THEN 1 ELSE 0) + (IF reason.cert THEN 1 ELSE 0))
    ELSE 5

\* the float nearest to t / 10, for 5 <= t <= 10: the long division of
\* t * 2^56 by 10, rounded to a multiple of 2^-53
float_of_tenths(t) ==
    LET q1   == (t * 2^27) \div 5
        r1   == (t * 2^27) % 5
        q2   == (r1 * ConfLimb) \div 5
        r2   == (r1 * ConfLimb) % 5
        rest == q2 % 8
        down == q2 - rest
        up   == \/ rest > 4
                \/ rest = 4 /\ (r2 > 0 \/ (down \div 8) % 2 = 1)
        low  == IF up THEN down + 8 ELSE down
    IN  Float(q1 + (low \div ConfLimb), low % ConfLimb)

\* C26: the confidence of a result whose file name is in the response is
\* min(1, 0.5 + 0.2*[length > 50] + 0.1*[causal marker] + 0.1*[characteristic
\* or type marker] + 0.1*[certainty marker]) for its reason, the float of that
\* value: 0.5 for a missing or empty reason, never less than 0.5.
C26_ConfidenceFormula ==
    \A j \in 1..Len(calls) : \A k \in BatchOf(j) :
      (~calls[j].raised /\ ~Omitted(j, k) /\ files[k].absolute_path \in DOMAIN results) =>
         LET reason == calls[j].response[files[k].name].reason
             confidence == results[files[k].absolute_path].confidence
         IN  /\ float_le(float_0_5, confidence)
             /\ confidence = float_of_tenths(ScoreTenths(reason))

\* C27: relocation stays inside the target tree.  Every input file that has
\* been moved lies in a sub-directory of the target base directory named by
\* the target folder of its result, and never in the base directory itself or
\* outside it, whatever the response was.
C27_RelocationInsideTarget ==
    \A p \in DOMAIN fs :
      (fs[p] \in InputPaths /\ p # fs[p] /\ delivered # <<>>) =>
         LET tf == delivered[Len(delivered)][fs[p]].target_folder
         IN  /\ tf.t = "str"
             /\ tf.v # ""
             /\ p.dir = Append(TargetBase, tf.v)


\* C28: at most one classification worker runs at any time.  A step that
\* starts a thread is taken with the start button enabled and leaves it
\* disabled, it is taken with no thread in run, and, when it is not the first
\* start, after the terminal signal of the previous thread has been handled;
\* the button goes from disabled to enabled only in a step that handles a
\* terminal signal; no thread is ever started over a running one.
C28_OneWorkerAtATime ==
    [][ /\ thread' # "overlapping"
        /\ (runs' # runs) => /\ start_btn
                             /\ ~start_btn'
                             /\ thread \in {"none", "finished"}
                             /\ (runs > 0 => (pc = "done" /\ handled = 1))
        /\ (start_btn' /\ ~start_btn) => handled' = handled + 1
        /\ (thread' = "running") => ~start_btn' ]_vars

\* a second thread is at work in its loop, started after the failure of the
\* first one was handled
C28_Witness ==
    /\ runs = 2
    /\ thread = "running"
    /\ pc = "loop"
    /\ calls # <<>>
    /\ ~start_btn


\* the rows of the history a call with that filter is about, newest first:
\* the rows of the table (rows are appended, so table order is the order of
\* recording) in reverse
NewestFirst(db, file_path) ==
    LET mine == SelectSeq(db.category_history,
                          LAMBDA r : file_path # NoPath => r.file_path = file_path)
        n == Len(mine)
    IN  [k \in 1..n |->
           [file_path |-> mine[n + 1 - k].file_path,
            category |-> CategoryNames(db.categories, mine[n + 1 - k].category_id)[1],
            action |-> mine[n + 1 - k].action,
            timestamp |-> mine[n + 1 - k].created_at]]

\* C29: get_category_history returns the history newest first: a call that
\* does not fail returns the rows of the table (of the given path only, when
\* a path is given) in the reverse of the order in which they were recorded,
\* rows recorded within one tick of the timestamp included.
C29_HistoryNewestFirst ==
    [][ (Called /\ store_call'.op = "get_category_history" /\ ~store_call'.raised)
          => store_call'.ret = NewestFirst(Db, store_call'.file_path) ]_vars


\* the worker has emitted the error signal in this run
HasFailed == \E k \in 1..Len(events) : events[k].type = "error"

\* C30: a run that ends with the error signal has no effect on the files.
\* From the error signal on, no step of the run or of the window changes a
\* file or a directory and nothing has been or is delivered through finished,
\* whatever the batches before the failing one returned; files and
\* directories change only in the step that handles a finished signal.
C30_FailedRunMovesNothing ==
    [][ /\ HasFailed' => /\ fs' = fs
                         /\ dirs' = dirs
                         /\ delivered' = <<>>
                         /\ InputPaths' \subseteq DOMAIN fs'
        /\ (fs' # fs \/ dirs' # dirs) => /\ Succeeded
                                         /\ ~HasFailed
                                         /\ handled = 0
                                         /\ handled' = 1 ]_vars

\* the classifier failed in the second batch, after the first batch gave
\* results; the failure has been handled, every input file is in place
C30_Witness ==
    /\ Failed
    /\ handled = 1
    /\ Len(calls) = 2
    /\ calls[2].raised
    /\ DOMAIN results # {}
    /\ delivered = <<>>
    /\ InputPaths \subseteq DOMAIN fs
    /\ TargetBase \notin dirs

====
